---------------------------- MODULE Spec2Model ----------------------------
(***************************************************************************)
(* A model of the asym-pkc crates (rsa, elgamal, elgamal_dsa,              *)
(* interactive_zero_knowledge, secp256k1_ecc, secp256k1_ecdsa,             *)
(* schnorr_signatures_secp256k1, curve25519_ecc, ed25519).                 *)
(*                                                                         *)
(* Every function of the crates is a pure function over bigint's U512.     *)
(* The model keeps the code's control flow and its unsigned arithmetic     *)
(* (a subtraction below zero, an overflow and a division by zero panic),   *)
(* and scales the sizes so that TLC can enumerate them: words are          *)
(* WordBits = 30 bits wide where the code has 512 (the widest word whose   *)
(* sums fit TLC's integers), scalars are ScalarBits = 8 bits wide where    *)
(* the code has 256, and the curves are curves of the same shape over      *)
(* 8-bit primes.                                                           *)
(***************************************************************************)
EXTENDS Integers, Sequences, FiniteSets, TLC

VARIABLES
    ar,       \* the call in flight on the arithmetic helpers (modinv, naf, ...)
    rsa,      \* rsa::rsa_test: derive, encrypt, decrypt
    ecc,      \* secp256k1_ecc / curve25519_ecc: derive, encrypt, decrypt
    ecdsa,    \* secp256k1_ecdsa: derive, sign, verify_signature
    schnorr,  \* schnorr_signatures_secp256k1: derive, sign, verify
    elgamal,  \* elgamal: derive, encrypt_elgamal, decrypt_elgamal
    dsa,      \* elgamal_dsa: derive, sign, verify
    zk        \* interactive_zero_knowledge: convince

vars == <<ar, rsa, ecc, ecdsa, schnorr, elgamal, dsa, zk>>

---------------------------------------------------------------------------
(* Sizes.                                                                  *)

\* the width of a scalar: 256 in the code (for _ in 0..256), 8 here
ScalarBits == 8
\* the width of bigint's U512: 512 in the code, 30 here
WordBits == 30

RECURSIVE Pow2(_)
Pow2(n) == IF n = 0 THEN 1 ELSE 2 * Pow2(n - 1)

\* one more than the largest U512: 2^WordBits
UMAX == 1073741824

\* the outcome of a call that panicked (arithmetic operation overflow,
\* division by zero, a failed assert!)
Panic == 0 - 1

---------------------------------------------------------------------------
(* bigint::uint::U512: +, -, * panic on overflow, / and % on a zero        *)
(* divisor.  A panicked operand makes the result panic.                    *)

UAdd(a, b) ==
    IF a = Panic \/ b = Panic THEN Panic
    ELSE IF a + b >= UMAX THEN Panic ELSE a + b

USub(a, b) ==
    IF a = Panic \/ b = Panic THEN Panic
    ELSE IF a < b THEN Panic ELSE a - b

UMul(a, b) ==
    IF a = Panic \/ b = Panic THEN Panic
    ELSE IF b # 0 /\ a > (UMAX - 1) \div b THEN Panic ELSE a * b

UDiv(a, b) ==
    IF a = Panic \/ b = Panic THEN Panic
    ELSE IF b = 0 THEN Panic ELSE a \div b

URem(a, b) ==
    IF a = Panic \/ b = Panic THEN Panic
    ELSE IF b = 0 THEN Panic ELSE a % b

UShr1(a) == IF a = Panic THEN Panic ELSE a \div 2

RECURSIVE BitAnd(_, _)
BitAnd(a, b) ==
    IF a = 0 \/ b = 0 THEN 0
    ELSE (a % 2) * (b % 2) + 2 * BitAnd(a \div 2, b \div 2)

RECURSIVE BitXor(_, _)
BitXor(a, b) ==
    IF a = 0 THEN b
    ELSE IF b = 0 THEN a
    ELSE ((a + b) % 2) + 2 * BitXor(a \div 2, b \div 2)

RECURSIVE BitOr(_, _)
BitOr(a, b) ==
    IF a = 0 THEN b
    ELSE IF b = 0 THEN a
    ELSE (IF a % 2 = 1 \/ b % 2 = 1 THEN 1 ELSE 0) + 2 * BitOr(a \div 2, b \div 2)

Bit(a, i) == (a \div Pow2(i)) % 2

---------------------------------------------------------------------------
(* euclidian.rs                                                            *)

RECURSIVE gcd_loop(_, _)
gcd_loop(r0, r1) ==
    LET r2 == URem(r0, r1) IN
    IF r2 = Panic THEN Panic
    ELSE IF r2 = 0 THEN r1
    ELSE gcd_loop(r1, r2)

gcd(a, b) ==
    IF a = Panic \/ b = Panic THEN Panic
    ELSE IF b > a THEN gcd_loop(b, a) ELSE gcd_loop(a, b)

\* the accumulator update of modinv's loop body
modinv_mut_step(div, x, inv, p) ==
    IF UMul(div, x) > inv
    THEN USub(URem(UMul(div, x), p), inv)
    ELSE URem(USub(inv, UMul(div, x)), p)

modinv_step(div, x, inv, p) ==
    IF UMul(div, x) = Panic THEN Panic
    ELSE IF UMul(div, x) > inv
    THEN USub(p, USub(URem(UMul(div, x), p), inv))
    ELSE URem(USub(inv, UMul(div, x)), p)

RECURSIVE modinv_loop(_, _, _, _, _)
modinv_loop(a, m, x, inv, p) ==
    IF ~(a > 1) THEN inv
    ELSE LET div == UDiv(a, m)
             rem == URem(a, m)
             inv2 == modinv_step(div, x, inv, p)
         IN IF div = Panic \/ inv2 = Panic THEN Panic
            ELSE modinv_loop(m, rem, inv2, x, p)

modinv(e, p) ==
    IF e = Panic \/ p = Panic THEN Panic
    ELSE IF p = 1 THEN 1
    ELSE modinv_loop(e, p, 0, 1, p)

---------------------------------------------------------------------------
(* math.rs, flt.rs                                                         *)

RECURSIVE mod_exp_loop(_, _, _, _)
mod_exp_loop(ret, exp, x, f) ==
    IF ret = Panic \/ x = Panic THEN Panic
    ELSE IF ~(exp > 1) THEN URem(UMul(x, ret), f)
    ELSE IF exp % 2 = 0
    THEN mod_exp_loop(ret, exp \div 2, URem(UMul(x, x), f), f)
    ELSE mod_exp_loop(URem(UMul(ret, x), f), exp \div 2, URem(UMul(x, x), f), f)

\* a faulty variant: without the early return for a = 0
mod_exp_mut(g, a, f) ==
    IF g = Panic \/ a = Panic \/ f = Panic THEN Panic
    ELSE IF g = 0 THEN 0
    ELSE mod_exp_loop(1, a, g, f)

mod_exp(g, a, f) ==
    IF g = Panic \/ a = Panic \/ f = Panic THEN Panic
    ELSE IF g = 0 THEN 0
    ELSE IF a = 0 THEN 1
    ELSE mod_exp_loop(1, a, g, f)

\* 1 for true, 0 for false, Panic when p - 1 or a mod_exp panics
RECURSIVE flt_loop(_, _)
flt_loop(i, p) ==
    IF i = 10 THEN 1
    ELSE LET r == mod_exp(i, USub(p, 1), p) IN
         IF r = Panic THEN Panic
         ELSE IF r # 1 THEN 0
         ELSE flt_loop(i + 1, p)

\* a faulty variant: the test run on p - 1
flt_mut(p) == flt_loop(2, USub(p, 1))

flt(p) == flt_loop(2, p)

---------------------------------------------------------------------------
(* utils.rs / ecmult.rs: the NAF recoding                                  *)

naf_mut(x) ==
    LET xh == UShr1(x)
        x3 == UAdd(x, xh)
        c  == BitOr(xh, x3)
    IN IF x3 = Panic THEN <<Panic, Panic>>
       ELSE <<BitAnd(x3, c), BitAnd(xh, c)>>

naf(x) ==
    LET xh == UShr1(x)
        x3 == UAdd(x, xh)
        c  == BitXor(xh, x3)
    IN IF x3 = Panic THEN <<Panic, Panic>>
       ELSE <<BitAnd(x3, c), BitAnd(xh, c)>>

---------------------------------------------------------------------------
(* secp256k1_ecc/src/ecmult.rs: AffinePoint on y^2 = x^3 + 7.  The scaled  *)
(* curve is taken over the prime field of 211 elements, where it has the   *)
(* prime order 199 (so, as on secp256k1, order < field and the cofactor is *)
(* one) and (3, 33) generates it.                                          *)

FIELD_SIZE == 211
CURVE_ORDER == 199
GENERATOR_X == 3
GENERATOR_Y == 33

\* a panic inside a function that returns a point
PanicPoint == [x |-> Panic, y |-> Panic, infinity |-> FALSE]
Panicked(P) == P.x = Panic

AffinePoint_new(x, y) ==
    IF x = Panic \/ y = Panic THEN PanicPoint
    ELSE [x |-> x, y |-> y, infinity |-> FALSE]

AffinePoint_default == [x |-> 0, y |-> 0, infinity |-> TRUE]

AffinePoint_eq(self, other) ==
    self.x = other.x /\ self.y = other.y /\ self.infinity = other.infinity

\* <<dy, dx>>
AffinePoint_slope(self, other, field) ==
    IF AffinePoint_eq(self, other)
    THEN << URem(UMul(URem(UMul(3, self.x), field), self.x), field),
            URem(UMul(2, self.y), field) >>
    ELSE << IF self.y > other.y THEN USub(field, USub(self.y, other.y))
                                ELSE USub(other.y, self.y),
            IF self.x > other.x THEN USub(field, USub(self.x, other.x))
                                ELSE USub(other.x, self.x) >>

\* add, from the slope on: each helper computes one local of the function
AffinePoint_add_x3(l2, sx) ==
    IF l2 < sx THEN USub(FIELD_SIZE, USub(sx, l2)) ELSE USub(l2, sx)

AffinePoint_add_t(self, x3) ==
    IF self.x > x3 THEN USub(self.x, x3)
    ELSE USub(FIELD_SIZE, USub(x3, self.x))

AffinePoint_add_y3(self, lambda, t) ==
    IF UMul(lambda, t) > self.y
    THEN URem(USub(UMul(lambda, t), self.y), FIELD_SIZE)
    ELSE USub(FIELD_SIZE, USub(self.y, URem(UMul(lambda, t), FIELD_SIZE)))

AffinePoint_add_new(self, lambda, x3) ==
    AffinePoint_new(x3, AffinePoint_add_y3(self, lambda, AffinePoint_add_t(self, x3)))

AffinePoint_add_lambda(self, other, lambda) ==
    AffinePoint_add_new(self, lambda,
        AffinePoint_add_x3(URem(UMul(lambda, lambda), FIELD_SIZE),
                           URem(UAdd(self.x, other.x), FIELD_SIZE)))

\* sl is <<dy, dx>>
AffinePoint_add_slope(self, other, sl) ==
    AffinePoint_add_lambda(self, other,
        URem(UMul(sl[1], modinv(sl[2], FIELD_SIZE)), FIELD_SIZE))

AffinePoint_add(self, other) ==
    LET f == FIELD_SIZE IN
    IF Panicked(self) \/ Panicked(other) THEN PanicPoint
    ELSE IF self.infinity THEN other
    ELSE IF other.infinity THEN self
    ELSE IF self.x = other.x /\ USub(f, other.y) = Panic THEN PanicPoint
    ELSE IF self.x = other.x /\ self.y = USub(f, other.y) THEN AffinePoint_default
    ELSE AffinePoint_add_slope(self, other, AffinePoint_slope(self, other, f))

AffinePoint_double(self) == AffinePoint_add(self, self)

\* the body of "for _ in 0..=256": i iterations are left
RECURSIVE AffinePoint_naf_ecmult_loop(_, _, _, _, _, _)
AffinePoint_naf_ecmult_loop(i, res, multiplier, np, nm, garbage) ==
    IF Panicked(res) \/ Panicked(multiplier) \/ Panicked(garbage) THEN PanicPoint
    ELSE IF i = 0 THEN res
    ELSE
      LET f == FIELD_SIZE
          res2 == IF np % 2 = 1 THEN AffinePoint_add(res, multiplier)
                  ELSE IF nm % 2 = 1
                  THEN AffinePoint_add(res,
                          AffinePoint_new(multiplier.x, USub(f, multiplier.y)))
                  ELSE res
          garbage2 == IF np % 2 = 1 \/ nm % 2 = 1 THEN garbage
                      ELSE AffinePoint_add(garbage, res)
      IN AffinePoint_naf_ecmult_loop(i - 1, res2, AffinePoint_double(multiplier),
                                     np \div 2, nm \div 2, garbage2)

AffinePoint_naf_ecmult(self, s) ==
    IF s = Panic \/ Panicked(self) \/ naf(s)[1] = Panic THEN PanicPoint
    ELSE AffinePoint_naf_ecmult_loop(ScalarBits + 1, AffinePoint_default, self,
                                     naf(s)[1], naf(s)[2], self)

---------------------------------------------------------------------------
(* curve25519_ecc/src/ecmult.rs: MontgomeryPoint on y^2 = x^3 + A x^2 + x. *)
(* The scaled curve has A = 17 over the prime field of 101 elements (101   *)
(* is 5 mod 8, as 2^255 - 19 is); its order is 8 * 13, (13, 29) generates  *)
(* the subgroup of prime order 13, A^2 - 4 is not a square and -(A + 2) is *)
(* one, so that the curve has the twisted Edwards form of ed25519.         *)

FIELD == 101
MONTGOMERY_A == 17
GROUP_ORDER == 13
C25519_GENERATOR_X == 13
C25519_GENERATOR_Y == 29

MontgomeryPoint_new(x, y) ==
    IF x = Panic \/ y = Panic THEN PanicPoint
    ELSE [x |-> x, y |-> y, infinity |-> FALSE]

MontgomeryPoint_default == [x |-> 0, y |-> 0, infinity |-> TRUE]

\* impl PartialEq: false as soon as one side is the point at infinity
MontgomeryPoint_eq(self, other) ==
    self.x = other.x /\ self.y = other.y /\ ~self.infinity /\ ~other.infinity

MontgomeryPoint_implicit(self, f) ==
    LET a == MONTGOMERY_A
        n == URem(UAdd(UAdd(URem(UMul(3, URem(UMul(self.x, self.x), f)), f),
                            URem(UMul(2, URem(UMul(a, self.x), f)), f)),
                       1), f)
        d == modinv(URem(UMul(self.y, 2), f), f)
    IN URem(UMul(n, d), f)

MontgomeryPoint_slope(self, other, f) ==
    IF MontgomeryPoint_eq(self, other) THEN MontgomeryPoint_implicit(self, f)
    ELSE
      LET n == IF other.y > self.y THEN USub(other.y, self.y)
               ELSE USub(f, USub(self.y, other.y))
          d == IF other.x > self.x THEN USub(other.x, self.x)
               ELSE USub(f, USub(self.x, other.x))
      IN URem(UMul(modinv(d, f), n), f)

\* add, from the slope on: each helper computes one local of the function
MontgomeryPoint_add_x3(lambda_s, sx) ==
    IF lambda_s > sx THEN USub(lambda_s, sx)
    ELSE USub(FIELD, USub(sx, lambda_s))

MontgomeryPoint_add_y3(ol, ly) ==
    IF ol > ly THEN USub(ol, ly) ELSE USub(FIELD, USub(ly, ol))

MontgomeryPoint_add_o(self, other) ==
    URem(UAdd(UAdd(URem(UMul(2, self.x), FIELD), other.x), MONTGOMERY_A), FIELD)

MontgomeryPoint_add_cube(self, other, lambda, lambda_s, lambda_c) ==
    MontgomeryPoint_new(
        MontgomeryPoint_add_x3(lambda_s,
            URem(UAdd(UAdd(MONTGOMERY_A, self.x), other.x), FIELD)),
        MontgomeryPoint_add_y3(
            URem(UMul(MontgomeryPoint_add_o(self, other), lambda), FIELD),
            URem(UAdd(lambda_c, self.y), FIELD)))

MontgomeryPoint_add_square(self, other, lambda, lambda_s) ==
    MontgomeryPoint_add_cube(self, other, lambda, lambda_s,
                             URem(UMul(lambda_s, lambda), FIELD))

MontgomeryPoint_add_lambda(self, other, lambda) ==
    MontgomeryPoint_add_square(self, other, lambda,
                               URem(UMul(lambda, lambda), FIELD))

MontgomeryPoint_add(self, other) ==
    LET f == FIELD IN
    IF Panicked(self) \/ Panicked(other) THEN PanicPoint
    ELSE IF self.infinity THEN other
    ELSE IF other.infinity THEN self
    ELSE IF self.x = other.x /\ USub(f, other.y) = Panic THEN PanicPoint
    ELSE IF self.x = other.x /\ self.y = USub(f, other.y)
         THEN MontgomeryPoint_default
    ELSE MontgomeryPoint_add_lambda(self, other,
                                    MontgomeryPoint_slope(self, other, f))

MontgomeryPoint_double(self) == MontgomeryPoint_add(self, self)

MontgomeryPoint_on_curve(self) ==
    LET a == MONTGOMERY_A
        f == FIELD
        x2 == URem(UMul(self.x, self.x), f)
    IN URem(UMul(self.y, self.y), f)
         = URem(UAdd(URem(UAdd(URem(UMul(x2, self.x), f),
                               URem(UMul(x2, a), f)), f),
                     self.x), f)

\* the body of "for _ in 0..256": i iterations are left
RECURSIVE MontgomeryPoint_naf_ecmult_loop(_, _, _, _, _, _)
MontgomeryPoint_naf_ecmult_loop(i, res, multiplier, np, nm, garbage) ==
    IF Panicked(res) \/ Panicked(multiplier) \/ Panicked(garbage) THEN PanicPoint
    ELSE IF i = 0 THEN res
    ELSE
      LET f == FIELD
          res2 == IF np % 2 = 1 THEN MontgomeryPoint_add(res, multiplier)
                  ELSE IF nm % 2 = 1
                  THEN MontgomeryPoint_add(res,
                          MontgomeryPoint_new(multiplier.x, USub(f, multiplier.y)))
                  ELSE res
          garbage2 == IF np % 2 = 1 \/ nm % 2 = 1 THEN garbage
                      ELSE MontgomeryPoint_add(garbage, multiplier)
      IN MontgomeryPoint_naf_ecmult_loop(i - 1, res2,
                                         MontgomeryPoint_double(multiplier),
                                         np \div 2, nm \div 2, garbage2)

MontgomeryPoint_naf_ecmult(self, s) ==
    IF s = Panic \/ Panicked(self) \/ naf(s)[1] = Panic THEN PanicPoint
    ELSE MontgomeryPoint_naf_ecmult_loop(ScalarBits, MontgomeryPoint_default, self,
                                         naf(s)[1], naf(s)[2], self)

---------------------------------------------------------------------------
(* ed25519/src/montgomery.rs: the second MontgomeryPoint.  Its add, slope  *)
(* and implicit are the text of curve25519_ecc/src/ecmult.rs (slope takes  *)
(* a reference), its modinv and naf are those of ed25519/src/utils.rs, and *)
(* its naf_ecmult doubles with multiplier.add(&multiplier).                *)

ed25519_MontgomeryPoint_add(self, other) == MontgomeryPoint_add(self, other)

RECURSIVE ed25519_MontgomeryPoint_naf_ecmult_loop(_, _, _, _, _, _)
ed25519_MontgomeryPoint_naf_ecmult_loop(i, res, multiplier, np, nm, garbage) ==
    IF Panicked(res) \/ Panicked(multiplier) \/ Panicked(garbage) THEN PanicPoint
    ELSE IF i = 0 THEN res
    ELSE
      LET f == FIELD
          res2 == IF np % 2 = 1 THEN ed25519_MontgomeryPoint_add(res, multiplier)
                  ELSE IF nm % 2 = 1
                  THEN ed25519_MontgomeryPoint_add(res,
                          MontgomeryPoint_new(multiplier.x, USub(f, multiplier.y)))
                  ELSE res
          garbage2 == IF np % 2 = 1 \/ nm % 2 = 1 THEN garbage
                      ELSE ed25519_MontgomeryPoint_add(garbage, multiplier)
      IN ed25519_MontgomeryPoint_naf_ecmult_loop(i - 1, res2,
                          ed25519_MontgomeryPoint_add(multiplier, multiplier),
                          np \div 2, nm \div 2, garbage2)

ed25519_MontgomeryPoint_naf_ecmult(self, s) ==
    IF s = Panic \/ Panicked(self) \/ naf(s)[1] = Panic THEN PanicPoint
    ELSE ed25519_MontgomeryPoint_naf_ecmult_loop(ScalarBits,
             MontgomeryPoint_default, self, naf(s)[1], naf(s)[2], self)

---------------------------------------------------------------------------
(* ed25519/src/window.rs: the lookup table of the windowed multiplier.     *)
(* The source cuts a 256-bit scalar into 32 bytes; the scaled scalar of    *)
(* ScalarBits bits is cut into WindowRows windows of WindowBits bits.      *)
(* initialize_window8 reads its modulus f from PRIME_ORDER, a constant of  *)
(* constants.rs, and hands it to non_ct_ecmult, which negates with it.     *)
(* The constant is either the field prime or the order of the base point   *)
(* (the value the same name has in elgamal_dsa/src/lib.rs), so the builder *)
(* takes the value read as its argument f.                                 *)

WindowBits == 2
WindowRows == ScalarBits \div WindowBits
PRIME_ORDER_VALUES == {FIELD, GROUP_ORDER}

RECURSIVE fast_pow_loop(_, _, _)
fast_pow_loop(ret, exp, x) ==
    IF ret = Panic \/ x = Panic THEN Panic
    ELSE IF exp > 1
    THEN IF exp % 2 = 0
         THEN fast_pow_loop(ret, exp \div 2, UMul(x, x))
         ELSE fast_pow_loop(UMul(ret, x), exp \div 2, UMul(x, x))
    ELSE UMul(x, ret)

fast_pow(g, a) ==
    IF g = 0 THEN 0
    ELSE IF a = 0 THEN 1
    ELSE fast_pow_loop(1, a, g)

RECURSIVE non_ct_ecmult_loop(_, _, _, _, _)
non_ct_ecmult_loop(res, multiplier, np, nm, f) ==
    IF Panicked(res) \/ Panicked(multiplier) THEN PanicPoint
    ELSE IF np = 0 /\ nm = 0 THEN res
    ELSE non_ct_ecmult_loop(
             IF np % 2 = 1 THEN ed25519_MontgomeryPoint_add(res, multiplier)
             ELSE IF nm % 2 = 1
             THEN ed25519_MontgomeryPoint_add(res,
                      MontgomeryPoint_new(multiplier.x, USub(f, multiplier.y)))
             ELSE res,
             ed25519_MontgomeryPoint_add(multiplier, multiplier),
             np \div 2, nm \div 2, f)

non_ct_ecmult(s, p, f) ==
    IF s = Panic \/ naf(s)[1] = Panic THEN PanicPoint
    ELSE non_ct_ecmult_loop(MontgomeryPoint_default, p, naf(s)[1], naf(s)[2], f)

\* The entry inserted at (i, j): r is the default point while j = 0 and
\* z + g afterwards.
LookupTable_entry(i, j, f) ==
    non_ct_ecmult(UMul(fast_pow(2, WindowBits * i), j),
                  IF j = 0 THEN MontgomeryPoint_default
                  ELSE ed25519_MontgomeryPoint_add(MontgomeryPoint_default,
                           MontgomeryPoint_new(C25519_GENERATOR_X,
                                               C25519_GENERATOR_Y)),
                  f)

LookupTable_initialize_window8(f) ==
    [k \in (0..(WindowRows - 1)) \X (0..(Pow2(WindowBits) - 1)) |->
        LookupTable_entry(k[1], k[2], f)]

\* A panic while an entry is computed ends the builder: no table exists.
LookupTable_panicked(map) == \E k \in DOMAIN map : Panicked(map[k])

RECURSIVE MontgomeryPoint_wNAF8_loop(_, _, _, _)
MontgomeryPoint_wNAF8_loop(i, res, s, map) ==
    IF Panicked(res) THEN PanicPoint
    ELSE IF i = WindowRows THEN res
    ELSE MontgomeryPoint_wNAF8_loop(i + 1,
             ed25519_MontgomeryPoint_add(res, map[<<i, s[i + 1]>>]), s, map)

MontgomeryPoint_wNAF8(s, map) ==
    IF LookupTable_panicked(map) THEN PanicPoint
    ELSE MontgomeryPoint_wNAF8_loop(0, MontgomeryPoint_default, s, map)

\* U256::from_little_endian on the window digits of a scalar.
RECURSIVE from_little_endian(_)
from_little_endian(s) ==
    IF s = <<>> THEN 0
    ELSE Head(s) + Pow2(WindowBits) * from_little_endian(Tail(s))

---------------------------------------------------------------------------
(* ed25519/src/edwards.rs: EdwardsPoint on -x^2 + y^2 = 1 + d x^2 y^2.     *)
(* The scaled curve is the twisted Edwards form of the Montgomery curve    *)
(* above: d = -(A - 2)/(A + 2) = 63, not a square, the factor of the       *)
(* birational map is 53, a square root of -(A + 2), and the generator      *)
(* (76, 73) is the image of the Montgomery generator.                      *)

EDWARDS_COEFFICIENT == 63
INV_FACTOR == 53
ED_GENX == 76
ED_GENY == 73

EdwardsPoint_new(x, y) == [x |-> x, y |-> y]
EdwardsPoint_default == [x |-> 0, y |-> 1]
EdwardsPoint_generator == EdwardsPoint_new(ED_GENX, ED_GENY)
PanicEdwards == [x |-> Panic, y |-> Panic]

\* the closure of add and of double: x - y in the field, f when x = y
EdwardsPoint_difference(x, y, f) ==
    IF x = Panic \/ y = Panic THEN Panic
    ELSE IF x > y THEN USub(x, y) ELSE USub(f, USub(y, x))

\* d * x1 * x2 * y1 * y2, reduced after every product
EdwardsPoint_add_dxxyy(self, other, d, f) ==
    URem(UMul(URem(UMul(URem(UMul(URem(UMul(d, self.x), f), other.x), f),
                        self.y), f), other.y), f)

EdwardsPoint_add_a(self, other, f) ==
    URem(UAdd(URem(UMul(self.x, other.y), f), URem(UMul(self.y, other.x), f)), f)

EdwardsPoint_add_c(self, other, f) ==
    URem(UAdd(URem(UMul(self.y, other.y), f), URem(UMul(self.x, other.x), f)), f)

EdwardsPoint_add_new(a, b, c, e, f) ==
    IF URem(UMul(modinv(b, f), a), f) = Panic
         \/ URem(UMul(modinv(e, f), c), f) = Panic THEN PanicEdwards
    ELSE EdwardsPoint_new(URem(UMul(modinv(b, f), a), f),
                          URem(UMul(modinv(e, f), c), f))

EdwardsPoint_add_t(self, other, t, f) ==
    EdwardsPoint_add_new(EdwardsPoint_add_a(self, other, f),
                         URem(UAdd(t, 1), f),
                         EdwardsPoint_add_c(self, other, f),
                         EdwardsPoint_difference(1, t, f), f)

EdwardsPoint_add(self, other) ==
    IF self.x = Panic \/ other.x = Panic THEN PanicEdwards
    ELSE EdwardsPoint_add_t(self, other,
             EdwardsPoint_add_dxxyy(self, other, EDWARDS_COEFFICIENT, FIELD),
             FIELD)

EdwardsPoint_double_new(self, xs, ys, f) ==
    EdwardsPoint_add_new(
        URem(UMul(URem(UMul(2, self.x), f), self.y), f),
        EdwardsPoint_difference(ys, xs, f),
        URem(UAdd(xs, ys), f),
        EdwardsPoint_difference(URem(UAdd(2, xs), f), ys, f), f)

EdwardsPoint_double(self) ==
    IF self.x = Panic THEN PanicEdwards
    ELSE EdwardsPoint_double_new(self, URem(UMul(self.x, self.x), FIELD),
                                 URem(UMul(self.y, self.y), FIELD), FIELD)

RECURSIVE EdwardsPoint_naf_ecmult_loop(_, _, _, _, _, _, _)
\* the nm branch adds (f - self.x, self.y), built from the base point self
EdwardsPoint_naf_ecmult_loop(i, self, res, multiplier, np, nm, garbage) ==
    IF res.x = Panic \/ multiplier.x = Panic \/ garbage.x = Panic
    THEN PanicEdwards
    ELSE IF i = 0 THEN res
    ELSE EdwardsPoint_naf_ecmult_loop(i - 1, self,
            IF np % 2 = 1 THEN EdwardsPoint_add(res, multiplier)
            ELSE IF nm % 2 = 1
            THEN EdwardsPoint_add(res,
                     EdwardsPoint_new(USub(FIELD, self.x), self.y))
            ELSE res,
            EdwardsPoint_double(multiplier), np \div 2, nm \div 2,
            IF np % 2 = 1 \/ nm % 2 = 1 THEN garbage
            ELSE EdwardsPoint_add(garbage, multiplier))

EdwardsPoint_naf_ecmult(self, s) ==
    IF s = Panic \/ self.x = Panic THEN PanicEdwards
    ELSE IF s = 0 THEN self
    ELSE IF naf(s)[1] = Panic THEN PanicEdwards
    ELSE EdwardsPoint_naf_ecmult_loop(ScalarBits, self, EdwardsPoint_default,
                                      self, naf(s)[1], naf(s)[2], self)

\* a of valid: f - x^2
EdwardsPoint_valid_a(self, f) == USub(f, URem(UMul(self.x, self.x), f))

EdwardsPoint_valid_c(self, f) ==
    URem(UAdd(EdwardsPoint_valid_a(self, f), URem(UMul(self.y, self.y), f)), f)

\* 1 for true, 0 for false, Panic
EdwardsPoint_valid(self) ==
    IF self.x = Panic THEN Panic
    ELSE IF EdwardsPoint_valid_c(self, FIELD) = Panic THEN Panic
    ELSE IF URem(UAdd(EdwardsPoint_add_dxxyy(self, self, EDWARDS_COEFFICIENT,
                                             FIELD), 1), FIELD) = Panic
    THEN Panic
    ELSE IF URem(UAdd(EdwardsPoint_add_dxxyy(self, self, EDWARDS_COEFFICIENT,
                                             FIELD), 1), FIELD)
              = EdwardsPoint_valid_c(self, FIELD) THEN 1 ELSE 0

\* montgomery.rs: MontgomeryPoint::into_edwards
MontgomeryPoint_into_edwards_xy(x, y) ==
    IF x = Panic \/ y = Panic THEN PanicEdwards ELSE EdwardsPoint_new(x, y)

MontgomeryPoint_into_edwards(self) ==
    IF Panicked(self) THEN PanicEdwards
    ELSE MontgomeryPoint_into_edwards_xy(
            URem(UMul(INV_FACTOR,
                      URem(UMul(self.x, modinv(self.y, FIELD)), FIELD)), FIELD),
            URem(UMul(USub(self.x, 1), modinv(UAdd(self.x, 1), FIELD)), FIELD))

EdwardsPoint_into_montgomery_v(u, x, f) ==
    IF URem(UMul(URem(UMul(u, modinv(x, f)), f), INV_FACTOR), f) = Panic
    THEN PanicPoint
    ELSE MontgomeryPoint_new(u,
             URem(UMul(URem(UMul(u, modinv(x, f)), f), INV_FACTOR), f))

EdwardsPoint_into_montgomery(self) ==
    IF self.x = Panic THEN PanicPoint
    ELSE EdwardsPoint_into_montgomery_v(
            URem(UMul(UAdd(self.y, 1),
                      modinv(USub(FIELD, USub(self.y, 1)), FIELD)), FIELD),
            self.x, FIELD)

---------------------------------------------------------------------------
(* ed25519/src/projective.rs: ProjectiveEdwardsPoint, the extended         *)
(* coordinates (x, y, z, t) of the Edwards curve above.                    *)

ProjectiveEdwardsPoint_new(x, y, z, t) ==
    IF x = Panic \/ y = Panic \/ z = Panic \/ t = Panic
    THEN [x |-> Panic, y |-> Panic, z |-> Panic, t |-> Panic]
    ELSE [x |-> x, y |-> y, z |-> z, t |-> t]

ProjectiveEdwardsPoint_default == [x |-> 0, y |-> 1, z |-> 1, t |-> 0]

EdwardsPoint_into_projective(self) ==
    ProjectiveEdwardsPoint_new(self.x, self.y, 1,
                               URem(UMul(self.x, self.y), FIELD))

ProjectiveEdwardsPoint_into_edwards(self) ==
    IF URem(UMul(self.x, modinv(self.z, FIELD)), FIELD) = Panic
         \/ URem(UMul(self.y, modinv(self.z, FIELD)), FIELD) = Panic
    THEN PanicEdwards
    ELSE EdwardsPoint_new(URem(UMul(self.x, modinv(self.z, FIELD)), FIELD),
                          URem(UMul(self.y, modinv(self.z, FIELD)), FIELD))

\* x3 = a * b, y3 = c * d, t3 = e * g with e = b and g = d, z3 = h * i with
\* h = c and i = a
ProjectiveEdwardsPoint_add_new(a, b, c, d, f) ==
    ProjectiveEdwardsPoint_new(URem(UMul(a, b), f), URem(UMul(c, d), f),
                               URem(UMul(c, a), f), URem(UMul(b, d), f))

ProjectiveEdwardsPoint_add_f(self, other, f) ==
    ProjectiveEdwardsPoint_add_new(
        EdwardsPoint_difference(URem(UMul(self.x, other.y), f),
                                URem(UMul(self.y, other.x), f), f),
        URem(UAdd(URem(UMul(self.t, other.z), f),
                  URem(UMul(self.z, other.t), f)), f),
        EdwardsPoint_difference(URem(UMul(self.y, other.y), f),
                                URem(UMul(self.x, other.x), f), f),
        EdwardsPoint_difference(URem(UMul(self.t, other.z), f),
                                URem(UMul(self.z, other.t), f), f),
        f)

ProjectiveEdwardsPoint_add(self, other) ==
    ProjectiveEdwardsPoint_add_f(self, other, FIELD)

\* x3 = e * g, y3 = h * i, z3 = g * h, t3 = e * i
ProjectiveEdwardsPoint_assumption_add_new(e, g, h, i, f) ==
    ProjectiveEdwardsPoint_new(URem(UMul(e, g), f), URem(UMul(h, i), f),
                               URem(UMul(g, h), f), URem(UMul(e, i), f))

ProjectiveEdwardsPoint_assumption_add_abcd(a, b, c, d, f) ==
    ProjectiveEdwardsPoint_assumption_add_new(
        URem(UAdd(d, c), f), EdwardsPoint_difference(b, a, f),
        URem(UAdd(b, a), f), EdwardsPoint_difference(d, c, f), f)

ProjectiveEdwardsPoint_assumption_add_f(self, other, f) ==
    ProjectiveEdwardsPoint_assumption_add_abcd(
        URem(UMul(EdwardsPoint_difference(self.y, self.x, f),
                  URem(UAdd(other.x, other.y), f)), f),
        URem(UMul(URem(UAdd(self.y, self.x), f),
                  EdwardsPoint_difference(other.y, other.x, f)), f),
        URem(UMul(URem(UMul(2, self.z), f), other.t), f),
        URem(UMul(URem(UMul(2, self.t), f), other.z), f),
        f)

ProjectiveEdwardsPoint_assumption_add(self, other) ==
    ProjectiveEdwardsPoint_assumption_add_f(self, other, FIELD)

\* a = 2xy, b = 2z^2 + x^2 - y^2, c = y^2 - x^2, d = y^2 + x^2;
\* x3 = a * b, y3 = c * d, t3 = a * d, z3 = c * b
ProjectiveEdwardsPoint_double_new(a, b, c, d, f) ==
    ProjectiveEdwardsPoint_new(URem(UMul(a, b), f), URem(UMul(c, d), f),
                               URem(UMul(c, b), f), URem(UMul(a, d), f))

ProjectiveEdwardsPoint_double_sq(self, xs, ys, f) ==
    ProjectiveEdwardsPoint_double_new(
        URem(UMul(URem(UMul(2, self.x), f), self.y), f),
        EdwardsPoint_difference(
            URem(UAdd(URem(UMul(URem(UMul(2, self.z), f), self.z), f), xs), f),
            ys, f),
        EdwardsPoint_difference(ys, xs, f),
        URem(UAdd(ys, xs), f), f)

ProjectiveEdwardsPoint_double(self) ==
    ProjectiveEdwardsPoint_double_sq(self, URem(UMul(self.x, self.x), FIELD),
                                     URem(UMul(self.y, self.y), FIELD), FIELD)

RECURSIVE ProjectiveEdwardsPoint_naf_ecmult_loop(_, _, _, _, _, _, _)
\* the nm branch adds (f - self.x, self.y, self.z, f - self.t), built from
\* the base point self
ProjectiveEdwardsPoint_naf_ecmult_loop(i, self, res, multiplier, np, nm, garbage) ==
    IF res.x = Panic \/ multiplier.x = Panic \/ garbage.x = Panic
    THEN ProjectiveEdwardsPoint_new(Panic, Panic, Panic, Panic)
    ELSE IF i = 0 THEN res
    ELSE ProjectiveEdwardsPoint_naf_ecmult_loop(i - 1, self,
            IF np % 2 = 1 THEN ProjectiveEdwardsPoint_assumption_add(res, multiplier)
            ELSE IF nm % 2 = 1
            THEN ProjectiveEdwardsPoint_assumption_add(res,
                     ProjectiveEdwardsPoint_new(USub(FIELD, self.x), self.y,
                                                self.z, USub(FIELD, self.t)))
            ELSE res,
            ProjectiveEdwardsPoint_double(multiplier), np \div 2, nm \div 2,
            IF np % 2 = 1 \/ nm % 2 = 1 THEN garbage
            ELSE ProjectiveEdwardsPoint_assumption_add(garbage, multiplier))

ProjectiveEdwardsPoint_naf_ecmult(self, s) ==
    IF s = Panic \/ self.x = Panic
    THEN ProjectiveEdwardsPoint_new(Panic, Panic, Panic, Panic)
    ELSE IF s = 0 THEN self
    ELSE IF naf(s)[1] = Panic
    THEN ProjectiveEdwardsPoint_new(Panic, Panic, Panic, Panic)
    ELSE ProjectiveEdwardsPoint_naf_ecmult_loop(ScalarBits, self,
             ProjectiveEdwardsPoint_default, self, naf(s)[1], naf(s)[2], self)

---------------------------------------------------------------------------
(* rsa/src/lib.rs                                                          *)

\* <<N, e>>, or <<Panic, Panic>> when an assert! fails or the arithmetic
\* panics
rsa_derive_pubkey(q, p, e) ==
    LET g == gcd(e, UMul(USub(q, 1), USub(p, 1))) IN
    IF g # 1 THEN <<Panic, Panic>>
    ELSE IF flt(q) # 1 THEN <<Panic, Panic>>
    ELSE IF flt(p) # 1 THEN <<Panic, Panic>>
    ELSE IF UMul(p, q) = Panic THEN <<Panic, Panic>>
    ELSE <<UMul(p, q), e>>

rsa_encrypt(m, p1, p2) == mod_exp(m, p2, p1)

rsa_decrypt_mut(c, q, p, e) ==
    IF flt(q) # 1 THEN Panic
    ELSE IF flt(p) # 1 THEN Panic
    ELSE LET pub_key == UMul(p, q)
             dec == modinv(e, pub_key)
         IN mod_exp(c, dec, pub_key)

rsa_decrypt(c, q, p, e) ==
    IF flt(q) # 1 THEN Panic
    ELSE IF flt(p) # 1 THEN Panic
    ELSE LET pub_key == UMul(p, q)
             sec_exp == UMul(USub(q, 1), USub(p, 1))
             dec == modinv(e, sec_exp)
         IN mod_exp(c, dec, pub_key)

---------------------------------------------------------------------------
(* The arithmetic helpers, called on their own.                            *)

\* the largest modulus and the largest first argument handed to modinv
MaxModulus == 36
MaxInverted == 80

ArIdle == [fn |-> "none", args |-> <<>>, ret |-> <<>>]
Idle == [pc |-> "idle"]
\* a local before its let
None == 0 - 2

\* nothing has been called yet
Init ==
    /\ ar = ArIdle /\ rsa = Idle /\ ecc = Idle /\ ecdsa = Idle
    /\ schnorr = Idle /\ elgamal = Idle /\ dsa = Idle /\ zk = Idle

call_modinv ==
    /\ ar = ArIdle
    /\ \E e \in 0..MaxInverted, p \in 1..MaxModulus :
          ar' = [fn |-> "modinv", args |-> <<e, p>>, ret |-> <<modinv(e, p)>>]
    /\ UNCHANGED <<rsa, ecc, ecdsa, schnorr, elgamal, dsa, zk>>

call_naf ==
    /\ ar = ArIdle
    /\ \E s \in 0..(Pow2(ScalarBits) - 1) :
          ar' = [fn |-> "naf", args |-> <<s>>, ret |-> naf(s)]
    /\ UNCHANGED <<rsa, ecc, ecdsa, schnorr, elgamal, dsa, zk>>

\* elgamal/src/lib.rs: the prime modulus and the generator, which is larger
BASEPOINT_ORDER == 89
GENERATOR == 248

MaxPowBase == 12
MaxPowExp == 9
MaxPowModulus == 12
\* small arguments, and the generator, the modulus and the exponents the
\* schemes and the tests call mod_exp with
PowBases == 0..MaxPowBase \cup {GENERATOR}
PowExps == 0..MaxPowExp \cup {100, 127, BASEPOINT_ORDER - 1}
PowModuli == 0..MaxPowModulus \cup {71, 77, BASEPOINT_ORDER}

call_mod_exp ==
    /\ ar = ArIdle
    /\ \E g \in PowBases, a \in PowExps, f \in PowModuli :
          ar' = [fn |-> "mod_exp", args |-> <<g, a, f>>,
                 ret |-> <<mod_exp(g, a, f)>>]
    /\ UNCHANGED <<rsa, ecc, ecdsa, schnorr, elgamal, dsa, zk>>

MaxFltInput == 120

call_flt ==
    /\ ar = ArIdle
    /\ \E p \in 0..MaxFltInput :
          ar' = [fn |-> "flt", args |-> <<p>>, ret |-> <<flt(p)>>]
    /\ UNCHANGED <<rsa, ecc, ecdsa, schnorr, elgamal, dsa, zk>>

NextArith == call_modinv \/ call_naf \/ call_mod_exp \/ call_flt
SpecArith == Init /\ [][NextArith]_vars

\* the base points handed to naf_ecmult: the generator, the keys derived
\* from it and the point at infinity that derive_public_key(0) returns
MaxBase == 3
AffinePoint_generator == AffinePoint_new(GENERATOR_X, GENERATOR_Y)
MontgomeryPoint_generator == MontgomeryPoint_new(C25519_GENERATOR_X, C25519_GENERATOR_Y)

call_AffinePoint_naf_ecmult_of(P) ==
    \E s \in 0..(Pow2(ScalarBits) - 1) :
        ar' = [fn |-> "AffinePoint::naf_ecmult", args |-> <<P, s>>,
               ret |-> <<AffinePoint_naf_ecmult(P, s)>>]

call_AffinePoint_naf_ecmult ==
    /\ ar = ArIdle
    /\ \E k \in 0..MaxBase :
         call_AffinePoint_naf_ecmult_of(AffinePoint_naf_ecmult(AffinePoint_generator, k))
    /\ UNCHANGED <<rsa, ecc, ecdsa, schnorr, elgamal, dsa, zk>>

call_MontgomeryPoint_naf_ecmult_of(P) ==
    \E s \in 0..(Pow2(ScalarBits) - 1) :
        ar' = [fn |-> "MontgomeryPoint::naf_ecmult", args |-> <<P, s>>,
               ret |-> <<MontgomeryPoint_naf_ecmult(P, s)>>]

call_MontgomeryPoint_naf_ecmult ==
    /\ ar = ArIdle
    /\ \E k \in 0..MaxBase :
         call_MontgomeryPoint_naf_ecmult_of(MontgomeryPoint_naf_ecmult(MontgomeryPoint_generator, k))
    /\ UNCHANGED <<rsa, ecc, ecdsa, schnorr, elgamal, dsa, zk>>

call_ed25519_MontgomeryPoint_naf_ecmult_of(P) ==
    \E s \in 0..(Pow2(ScalarBits) - 1) :
        ar' = [fn |-> "ed25519::MontgomeryPoint::naf_ecmult", args |-> <<P, s>>,
               ret |-> <<ed25519_MontgomeryPoint_naf_ecmult(P, s)>>]

call_ed25519_MontgomeryPoint_naf_ecmult ==
    /\ ar = ArIdle
    /\ \E k \in 0..MaxBase :
         call_ed25519_MontgomeryPoint_naf_ecmult_of(ed25519_MontgomeryPoint_naf_ecmult(MontgomeryPoint_generator, k))
    /\ UNCHANGED <<rsa, ecc, ecdsa, schnorr, elgamal, dsa, zk>>

NextEcmult ==
    \/ call_AffinePoint_naf_ecmult
    \/ call_MontgomeryPoint_naf_ecmult
    \/ call_ed25519_MontgomeryPoint_naf_ecmult
SpecEcmult == Init /\ [][NextEcmult]_vars

\* montgomery.rs tests::wnaf_window8_montgomery: the table is built, then
\* the same scalar goes through naf_ecmult and through wNAF8.
WindowScalars == [1..WindowRows -> 0..(Pow2(WindowBits) - 1)]

call_wNAF8_of(s, f, map) ==
    ar' = [fn |-> "wNAF8", args |-> <<s, f>>,
           ret |-> <<MontgomeryPoint_wNAF8(s, map),
                     ed25519_MontgomeryPoint_naf_ecmult(MontgomeryPoint_generator,
                                                        from_little_endian(s)),
                     map>>]

call_wNAF8 ==
    /\ ar = ArIdle
    /\ \E f \in PRIME_ORDER_VALUES : \E s \in WindowScalars :
         call_wNAF8_of(s, f, LookupTable_initialize_window8(f))
    /\ UNCHANGED <<rsa, ecc, ecdsa, schnorr, elgamal, dsa, zk>>

\* The point operations a call of naf_ecmult performs, in order: each pass
\* of the loop makes one addition (into res, or into garbage on a zero
\* digit) and one doubling of multiplier.
RECURSIVE naf_ecmult_ops_loop(_, _, _)
naf_ecmult_ops_loop(i, np, nm) ==
    IF i = 0 THEN <<>>
    ELSE << IF np % 2 = 1 \/ nm % 2 = 1 THEN "add" ELSE "dummy_add", "double" >>
            \o naf_ecmult_ops_loop(i - 1, np \div 2, nm \div 2)

\* for _ in 0..=256
AffinePoint_naf_ecmult_ops(s) ==
    naf_ecmult_ops_loop(ScalarBits + 1, naf(s)[1], naf(s)[2])

\* for _ in 0..256
MontgomeryPoint_naf_ecmult_ops(s) ==
    naf_ecmult_ops_loop(ScalarBits, naf(s)[1], naf(s)[2])

ed25519_MontgomeryPoint_naf_ecmult_ops(s) ==
    naf_ecmult_ops_loop(ScalarBits, naf(s)[1], naf(s)[2])

\* if *s == U512::zero() { return self.clone(); } and for _ in 0..256
EdwardsPoint_naf_ecmult_ops(s) ==
    IF s = 0 THEN <<>>
    ELSE naf_ecmult_ops_loop(ScalarBits, naf(s)[1], naf(s)[2])

ProjectiveEdwardsPoint_naf_ecmult_ops(s) ==
    IF s = 0 THEN <<>>
    ELSE naf_ecmult_ops_loop(ScalarBits, naf(s)[1], naf(s)[2])

naf_ecmult_ops(impl, s) ==
    CASE impl = "AffinePoint" -> AffinePoint_naf_ecmult_ops(s)
      [] impl = "MontgomeryPoint" -> MontgomeryPoint_naf_ecmult_ops(s)
      [] impl = "ed25519::MontgomeryPoint" -> ed25519_MontgomeryPoint_naf_ecmult_ops(s)
      [] impl = "EdwardsPoint" -> EdwardsPoint_naf_ecmult_ops(s)
      [] impl = "ProjectiveEdwardsPoint" -> ProjectiveEdwardsPoint_naf_ecmult_ops(s)

Implementations ==
    {"AffinePoint", "MontgomeryPoint", "ed25519::MontgomeryPoint",
     "EdwardsPoint", "ProjectiveEdwardsPoint"}

call_naf_ecmult_ops ==
    /\ ar = ArIdle
    /\ \E impl \in Implementations, s \in 0..(Pow2(ScalarBits) - 1) :
         ar' = [fn |-> "naf_ecmult_ops", args |-> <<impl, s>>,
                ret |-> <<naf_ecmult_ops(impl, s)>>]
    /\ UNCHANGED <<rsa, ecc, ecdsa, schnorr, elgamal, dsa, zk>>

NextOps == call_naf_ecmult_ops
SpecOps == Init /\ [][NextOps]_vars

\* naf_ecmult of each point type, called on a multiple of the type's
\* generator and a small scalar
MaxZeroBase == 25
MaxZeroScalar == 1

ProjectiveEdwardsPoint_generator == EdwardsPoint_into_projective(EdwardsPoint_generator)

naf_ecmult_identity(impl) ==
    CASE impl = "AffinePoint" -> AffinePoint_default
      [] impl = "MontgomeryPoint" -> MontgomeryPoint_default
      [] impl = "ed25519::MontgomeryPoint" -> MontgomeryPoint_default
      [] impl = "EdwardsPoint" -> EdwardsPoint_default
      [] impl = "ProjectiveEdwardsPoint" -> ProjectiveEdwardsPoint_default

naf_ecmult_generator(impl) ==
    CASE impl = "AffinePoint" -> AffinePoint_generator
      [] impl = "MontgomeryPoint" -> MontgomeryPoint_generator
      [] impl = "ed25519::MontgomeryPoint" -> MontgomeryPoint_generator
      [] impl = "EdwardsPoint" -> EdwardsPoint_generator
      [] impl = "ProjectiveEdwardsPoint" -> ProjectiveEdwardsPoint_generator

naf_ecmult_of(impl, P, s) ==
    CASE impl = "AffinePoint" -> AffinePoint_naf_ecmult(P, s)
      [] impl = "MontgomeryPoint" -> MontgomeryPoint_naf_ecmult(P, s)
      [] impl = "ed25519::MontgomeryPoint" -> ed25519_MontgomeryPoint_naf_ecmult(P, s)
      [] impl = "EdwardsPoint" -> EdwardsPoint_naf_ecmult(P, s)
      [] impl = "ProjectiveEdwardsPoint" -> ProjectiveEdwardsPoint_naf_ecmult(P, s)

call_naf_ecmult_small_of(impl, P) ==
    \E s \in 0..MaxZeroScalar :
        ar' = [fn |-> "naf_ecmult_small", args |-> <<impl, P, s>>,
               ret |-> <<naf_ecmult_of(impl, P, s)>>]

call_naf_ecmult_small ==
    /\ ar = ArIdle
    /\ \E impl \in Implementations, k \in 0..MaxZeroBase :
         call_naf_ecmult_small_of(impl,
             naf_ecmult_of(impl, naf_ecmult_generator(impl), k))
    /\ UNCHANGED <<rsa, ecc, ecdsa, schnorr, elgamal, dsa, zk>>

NextSmall == call_naf_ecmult_small
SpecSmall == Init /\ [][NextSmall]_vars

\* add of the Weierstrass and of the Montgomery point type, called on a
\* finite point (x, y) and on (x, (p - y) mod p)
MaxNegX == 12
MaxNegY == 12

add_field(impl) ==
    IF impl = "AffinePoint" THEN FIELD_SIZE ELSE FIELD

add_of(impl, P, Q) ==
    IF impl = "AffinePoint" THEN AffinePoint_add(P, Q)
    ELSE MontgomeryPoint_add(P, Q)

call_add_negated ==
    /\ ar = ArIdle
    /\ \E impl \in {"AffinePoint", "MontgomeryPoint"},
          x \in 0..MaxNegX, y \in 0..MaxNegY :
         ar' = [fn |-> "add_negated", args |-> <<impl, x, y>>,
                ret |-> <<add_of(impl,
                    [x |-> x, y |-> y, infinity |-> FALSE],
                    [x |-> x, y |-> URem(USub(add_field(impl), y), add_field(impl)),
                     infinity |-> FALSE])>>]
    /\ UNCHANGED <<rsa, ecc, ecdsa, schnorr, elgamal, dsa, zk>>

NextNegated == call_add_negated
SpecNegated == Init /\ [][NextNegated]_vars

\* MontgomeryPoint::into_edwards followed by EdwardsPoint::into_montgomery,
\* called on a Montgomery point (u, v)
MaxRoundU == 12
MaxRoundV == 25

call_round_trip ==
    /\ ar = ArIdle
    /\ \E u \in (0..MaxRoundU) \cup {FIELD - 1}, v \in 0..MaxRoundV :
         ar' = [fn |-> "round_trip", args |-> <<u, v>>,
                ret |-> <<EdwardsPoint_into_montgomery(
                              MontgomeryPoint_into_edwards(
                                  MontgomeryPoint_new(u, v)))>>]
    /\ UNCHANGED <<rsa, ecc, ecdsa, schnorr, elgamal, dsa, zk>>

NextRound == call_round_trip
SpecRound == Init /\ [][NextRound]_vars

\* projective_tests: ProjectiveEdwardsPoint::add on the extended coordinates
\* of two points of the curve, next to EdwardsPoint::add on the points
MaxAddX == 14

\* the points of the curve with x up to MaxAddX, the identity (0, 1) included
EdwardsPoint_on_curve ==
    {P \in [x : 0..MaxAddX, y : 0..(FIELD - 1)] : EdwardsPoint_valid(P) = 1}

call_projective_add_of(P, Q) ==
    ar' = [fn |-> "projective_add", args |-> <<P, Q>>,
           ret |-> <<ProjectiveEdwardsPoint_into_edwards(
                         ProjectiveEdwardsPoint_add(
                             EdwardsPoint_into_projective(P),
                             EdwardsPoint_into_projective(Q))),
                     EdwardsPoint_add(P, Q)>>]

call_projective_add ==
    /\ ar = ArIdle
    /\ \E P \in EdwardsPoint_on_curve, Q \in EdwardsPoint_on_curve :
         call_projective_add_of(P, Q)
    /\ UNCHANGED <<rsa, ecc, ecdsa, schnorr, elgamal, dsa, zk>>

NextProjective == call_projective_add
SpecProjective == Init /\ [][NextProjective]_vars

\* add, double and the negation of naf_ecmult and of decrypt, called on
\* points whose coordinates are small reduced values
MaxCoordinate == 4
CoordinateTypes == {"AffinePoint", "MontgomeryPoint", "EdwardsPoint"}

coordinates_field(impl) ==
    IF impl = "AffinePoint" THEN FIELD_SIZE ELSE FIELD

coordinates_point(impl, x, y) ==
    CASE impl = "AffinePoint" -> AffinePoint_new(x, y)
      [] impl = "MontgomeryPoint" -> MontgomeryPoint_new(x, y)
      [] impl = "EdwardsPoint" -> EdwardsPoint_new(x, y)

coordinates_add(impl, P, Q) ==
    CASE impl = "AffinePoint" -> AffinePoint_add(P, Q)
      [] impl = "MontgomeryPoint" -> MontgomeryPoint_add(P, Q)
      [] impl = "EdwardsPoint" -> EdwardsPoint_add(P, Q)

coordinates_double(impl, P) ==
    CASE impl = "AffinePoint" -> AffinePoint_double(P)
      [] impl = "MontgomeryPoint" -> MontgomeryPoint_double(P)
      [] impl = "EdwardsPoint" -> EdwardsPoint_double(P)

\* AffinePoint::new(multiplier.x, f - multiplier.y) and its like
coordinates_negated(impl, P) ==
    CASE impl = "AffinePoint" -> AffinePoint_new(P.x, USub(FIELD_SIZE, P.y))
      [] impl = "MontgomeryPoint" -> MontgomeryPoint_new(P.x, USub(FIELD, P.y))
      [] impl = "EdwardsPoint" -> EdwardsPoint_new(USub(FIELD, P.x), P.y)

call_add_coordinates ==
    /\ ar = ArIdle
    /\ \E impl \in CoordinateTypes,
          x1 \in 0..MaxCoordinate, y1 \in 0..MaxCoordinate,
          x2 \in 0..MaxCoordinate, y2 \in 0..MaxCoordinate :
         ar' = [fn |-> "add_coordinates", args |-> <<impl, x1, y1, x2, y2>>,
                ret |-> <<coordinates_add(impl, coordinates_point(impl, x1, y1),
                                          coordinates_point(impl, x2, y2))>>]
    /\ UNCHANGED <<rsa, ecc, ecdsa, schnorr, elgamal, dsa, zk>>

call_double_coordinates ==
    /\ ar = ArIdle
    /\ \E impl \in CoordinateTypes,
          x \in 0..MaxCoordinate, y \in 0..MaxCoordinate :
         ar' = [fn |-> "double_coordinates", args |-> <<impl, x, y>>,
                ret |-> <<coordinates_double(impl, coordinates_point(impl, x, y))>>]
    /\ UNCHANGED <<rsa, ecc, ecdsa, schnorr, elgamal, dsa, zk>>

call_negated_coordinates ==
    /\ ar = ArIdle
    /\ \E impl \in CoordinateTypes,
          x \in 0..MaxCoordinate, y \in 0..MaxCoordinate :
         ar' = [fn |-> "negated_coordinates", args |-> <<impl, x, y>>,
                ret |-> <<coordinates_negated(impl, coordinates_point(impl, x, y))>>]
    /\ UNCHANGED <<rsa, ecc, ecdsa, schnorr, elgamal, dsa, zk>>

NextCoordinates ==
    \/ call_add_coordinates \/ call_double_coordinates
    \/ call_negated_coordinates
SpecCoordinates == Init /\ [][NextCoordinates]_vars

\* impl PartialEq for MontgomeryPoint (curve25519_ecc), called on two points:
\* finite points with small coordinates and the point at infinity
MaxEqCoordinate == 3

EqPoints ==
    [x : 0..MaxEqCoordinate, y : 0..MaxEqCoordinate, infinity : {FALSE}]
        \cup {MontgomeryPoint_default}

call_eq ==
    /\ ar = ArIdle
    /\ \E P \in EqPoints, Q \in EqPoints :
         ar' = [fn |-> "eq", args |-> <<P, Q>>,
                ret |-> <<MontgomeryPoint_eq(P, Q)>>]
    /\ UNCHANGED <<rsa, ecc, ecdsa, schnorr, elgamal, dsa, zk>>

NextEq == call_eq
SpecEq == Init /\ [][NextEq]_vars

\* edwards_tests::cofactor_check and private_key_equivalence: the same
\* scalar goes through EdwardsPoint::naf_ecmult on the Edwards generator and
\* through MontgomeryPoint::naf_ecmult and into_edwards
call_cofactor_check ==
    /\ ar = ArIdle
    /\ \E s \in 0..(Pow2(ScalarBits) - 1) :
         ar' = [fn |-> "cofactor_check", args |-> <<s>>,
                ret |-> <<EdwardsPoint_naf_ecmult(EdwardsPoint_generator, s),
                          MontgomeryPoint_into_edwards(
                              ed25519_MontgomeryPoint_naf_ecmult(
                                  MontgomeryPoint_generator, s))>>]
    /\ UNCHANGED <<rsa, ecc, ecdsa, schnorr, elgamal, dsa, zk>>

NextCofactor == call_cofactor_check
SpecCofactor == Init /\ [][NextCofactor]_vars

NextWindow == call_wNAF8
SpecWindow == Init /\ [][NextWindow]_vars

---------------------------------------------------------------------------
(* rsa_test(p, q, e, m): derive the public key, encrypt, decrypt.          *)

\* a local that is not assigned yet

\* the secret keys, the exponents and the messages tried
MinKey == 10
MaxKey == 17
MaxExponent == 30
MaxMessage == 255

rsa_start ==
    /\ rsa = Idle
    /\ \E p \in MinKey..MaxKey, q \in MinKey..MaxKey, e \in 0..MaxExponent :
          rsa' = [pc |-> "start", p |-> p, q |-> q, e |-> e,
                  N |-> None, m |-> None, c |-> None, m2 |-> None]
    /\ UNCHANGED <<ar, ecc, ecdsa, schnorr, elgamal, dsa, zk>>

rsa_derive ==
    /\ rsa.pc = "start"
    /\ LET k == rsa_derive_pubkey(rsa.q, rsa.p, rsa.e) IN
       rsa' = IF k[1] = Panic THEN [rsa EXCEPT !.pc = "panicked"]
              ELSE [rsa EXCEPT !.pc = "derived", !.N = k[1]]
    /\ UNCHANGED <<ar, ecc, ecdsa, schnorr, elgamal, dsa, zk>>

rsa_enc ==
    /\ rsa.pc = "derived"
    /\ \E m \in 0..MaxMessage :
          /\ m < rsa.N
          /\ rsa' = [rsa EXCEPT !.pc = "encrypted", !.m = m,
                                !.c = rsa_encrypt(m, rsa.N, rsa.e)]
    /\ UNCHANGED <<ar, ecc, ecdsa, schnorr, elgamal, dsa, zk>>

rsa_dec ==
    /\ rsa.pc = "encrypted"
    /\ LET m2 == rsa_decrypt(rsa.c, rsa.q, rsa.p, rsa.e) IN
       rsa' = [rsa EXCEPT !.pc = IF m2 = Panic THEN "panicked" ELSE "decrypted",
                          !.m2 = m2]
    /\ UNCHANGED <<ar, ecc, ecdsa, schnorr, elgamal, dsa, zk>>

NextRsa == rsa_start \/ rsa_derive \/ rsa_enc \/ rsa_dec
SpecRsa == Init /\ [][NextRsa]_vars

\* rsa_derive_pubkey called on its own, on a wider choice of keys: a range
\* of primes and composites, the values around zero, and
\* 29341 = 13 * 37 * 61
RsaKeys == MinKey..MaxKey \cup {0, 1, 2, 29341}

rsa_key_start ==
    /\ rsa = Idle
    /\ \E p \in RsaKeys, q \in RsaKeys, e \in 0..MaxExponent :
          rsa' = [pc |-> "start", p |-> p, q |-> q, e |-> e,
                  N |-> None, m |-> None, c |-> None, m2 |-> None]
    /\ UNCHANGED <<ar, ecc, ecdsa, schnorr, elgamal, dsa, zk>>

NextRsaKey == rsa_key_start \/ rsa_derive
SpecRsaKey == Init /\ [][NextRsaKey]_vars

\* rsa_decrypt called with a second private key that differs from p in the
\* one bit i; the key used is kept in the field pf.
MaxFlipBit == 5

rsa_dec_flipped ==
    /\ rsa.pc = "encrypted"
    /\ \E i \in 0..MaxFlipBit :
         LET pf == BitXor(rsa.p, Pow2(i))
             m2 == rsa_decrypt(rsa.c, rsa.q, pf, rsa.e)
         IN rsa' = [pc |-> IF m2 = Panic THEN "flip_panicked" ELSE "flip_decrypted",
                    p |-> rsa.p, q |-> rsa.q, e |-> rsa.e, N |-> rsa.N,
                    m |-> rsa.m, c |-> rsa.c, m2 |-> m2, pf |-> pf]
    /\ UNCHANGED <<ar, ecc, ecdsa, schnorr, elgamal, dsa, zk>>

NextRsaFlip == rsa_start \/ rsa_derive \/ rsa_enc \/ rsa_dec_flipped
SpecRsaFlip == Init /\ [][NextRsaFlip]_vars

---------------------------------------------------------------------------
(* secp256k1_ecc/src/lib.rs and curve25519_ecc/src/lib.rs: EC-ElGamal.     *)
(* The value drawn from the random number generator is a parameter.        *)

derive_public_key(s) ==
    AffinePoint_naf_ecmult(AffinePoint_new(GENERATOR_X, GENERATOR_Y), s)

\* <<c1, c2>>
encrypt_message(pubkey, message, k) ==
    LET generator == AffinePoint_new(GENERATOR_X, GENERATOR_Y)
        c1 == AffinePoint_naf_ecmult(generator, k)
        c  == AffinePoint_naf_ecmult(pubkey, k)
    IN <<c1, AffinePoint_add(c, message)>>

decrypt_message(privkey, c1, c2) ==
    LET field == FIELD_SIZE
        r1 == AffinePoint_naf_ecmult(c1, privkey)
        r2 == AffinePoint_new(r1.x, USub(field, r1.y))
    IN AffinePoint_add(c2, r2)

verify(a, f) ==
    URem(UMul(a.y, a.y), f)
      = URem(UAdd(UMul(URem(UMul(a.x, a.x), f), a.x), 7), f)

derive_curve25519_pubkey(s) ==
    MontgomeryPoint_naf_ecmult(
        MontgomeryPoint_new(C25519_GENERATOR_X, C25519_GENERATOR_Y), s)

\* <<c1, c3>>
encrypt_curve25519(k, pk, m) ==
    LET g  == MontgomeryPoint_new(C25519_GENERATOR_X, C25519_GENERATOR_Y)
        c1 == MontgomeryPoint_naf_ecmult(g, k)
        c2 == MontgomeryPoint_naf_ecmult(pk, k)
    IN <<c1, MontgomeryPoint_add(m, c2)>>

decrypt_curve25519(s, c1, c2) ==
    LET f == FIELD
        x == MontgomeryPoint_naf_ecmult(c1, s)
        z == MontgomeryPoint_new(x.x, USub(f, x.y))
    IN MontgomeryPoint_add(c2, z)

\* the scalar multiple of each curve's generator handed to that curve's
\* on-curve predicate
call_verify ==
    /\ ar = ArIdle
    /\ \E k \in 0..(Pow2(ScalarBits) - 1) :
         ar' = [fn |-> "verify", args |-> <<k>>,
                ret |-> <<derive_public_key(k),
                          verify(derive_public_key(k), FIELD_SIZE)>>]
    /\ UNCHANGED <<rsa, ecc, ecdsa, schnorr, elgamal, dsa, zk>>

call_on_curve ==
    /\ ar = ArIdle
    /\ \E k \in 0..(Pow2(ScalarBits) - 1) :
         ar' = [fn |-> "on_curve", args |-> <<k>>,
                ret |-> <<derive_curve25519_pubkey(k),
                          MontgomeryPoint_on_curve(derive_curve25519_pubkey(k))>>]
    /\ UNCHANGED <<rsa, ecc, ecdsa, schnorr, elgamal, dsa, zk>>

call_valid ==
    /\ ar = ArIdle
    /\ \E k \in 0..(Pow2(ScalarBits) - 1) :
         ar' = [fn |-> "valid", args |-> <<k>>,
                ret |-> <<EdwardsPoint_naf_ecmult(EdwardsPoint_generator, k),
                          EdwardsPoint_valid(
                              EdwardsPoint_naf_ecmult(EdwardsPoint_generator, k))
                            = 1>>]
    /\ UNCHANGED <<rsa, ecc, ecdsa, schnorr, elgamal, dsa, zk>>

NextOnCurve == call_verify \/ call_on_curve \/ call_valid
SpecOnCurve == Init /\ [][NextOnCurve]_vars

MaxPrivkey == 5
MaxNonce == 4
MaxMessageX == 8

\* the message points offered: the points of the curve up to an abscissa
Secp256k1Messages ==
    { a \in [x : 0..MaxMessageX, y : 0..(FIELD_SIZE - 1), infinity : {FALSE}] :
        verify(a, FIELD_SIZE) }

Curve25519Messages ==
    { a \in [x : 0..MaxMessageX, y : 0..(FIELD - 1), infinity : {FALSE}] :
        MontgomeryPoint_on_curve(a) }

\* encrypt_message called on its own, on message points on and off the
\* curve
MaxMessageY == 12

call_encrypt_message_of(pubkey) ==
    \E message \in [x : 0..MaxMessageX, y : 0..MaxMessageY, infinity : {FALSE}],
       k \in 0..MaxNonce :
        ar' = [fn |-> "encrypt_message", args |-> <<pubkey, message, k>>,
               ret |-> encrypt_message(pubkey, message, k)]

call_encrypt_message ==
    /\ ar = ArIdle
    /\ \E privkey \in 0..MaxPrivkey :
         call_encrypt_message_of(derive_public_key(privkey))
    /\ UNCHANGED <<rsa, ecc, ecdsa, schnorr, elgamal, dsa, zk>>

NextEncrypt == call_encrypt_message
SpecEncrypt == Init /\ [][NextEncrypt]_vars

secp256k1_derive ==
    /\ ecc = Idle
    /\ \E privkey \in 0..MaxPrivkey :
         LET pubkey == derive_public_key(privkey) IN
         ecc' = [pc |-> IF Panicked(pubkey) THEN "panicked" ELSE "derived",
                 crate |-> "secp256k1_ecc", privkey |-> privkey, pubkey |-> pubkey]
    /\ UNCHANGED <<ar, rsa, ecdsa, schnorr, elgamal, dsa, zk>>

secp256k1_encrypt ==
    /\ ecc.pc = "derived" /\ ecc.crate = "secp256k1_ecc"
    /\ \E message \in Secp256k1Messages, k \in 0..MaxNonce :
         LET c == encrypt_message(ecc.pubkey, message, k) IN
         ecc' = [pc |-> IF Panicked(c[1]) \/ Panicked(c[2]) THEN "panicked"
                        ELSE "encrypted",
                 crate |-> ecc.crate, privkey |-> ecc.privkey,
                 pubkey |-> ecc.pubkey, message |-> message, k |-> k,
                 c1 |-> c[1], c2 |-> c[2]]
    /\ UNCHANGED <<ar, rsa, ecdsa, schnorr, elgamal, dsa, zk>>

secp256k1_decrypt ==
    /\ ecc.pc = "encrypted" /\ ecc.crate = "secp256k1_ecc"
    /\ LET res == decrypt_message(ecc.privkey, ecc.c1, ecc.c2) IN
       ecc' = [pc |-> IF Panicked(res) THEN "panicked" ELSE "decrypted",
               crate |-> ecc.crate, privkey |-> ecc.privkey,
               pubkey |-> ecc.pubkey, message |-> ecc.message, k |-> ecc.k,
               c1 |-> ecc.c1, c2 |-> ecc.c2, res |-> res]
    /\ UNCHANGED <<ar, rsa, ecdsa, schnorr, elgamal, dsa, zk>>

\* generate_curve25519_privkey and the nonce of encrypt_curve25519 are
\* reduced modulo GROUP_ORDER
curve25519_derive ==
    /\ ecc = Idle
    /\ \E s \in 0..(GROUP_ORDER - 1) :
         LET pubkey == derive_curve25519_pubkey(s) IN
         ecc' = [pc |-> IF Panicked(pubkey) THEN "panicked" ELSE "derived",
                 crate |-> "curve25519_ecc", privkey |-> s, pubkey |-> pubkey]
    /\ UNCHANGED <<ar, rsa, ecdsa, schnorr, elgamal, dsa, zk>>

curve25519_encrypt ==
    /\ ecc.pc = "derived" /\ ecc.crate = "curve25519_ecc"
    /\ \E m \in Curve25519Messages, k \in 0..(GROUP_ORDER - 1) :
         LET c == encrypt_curve25519(k, ecc.pubkey, m) IN
         ecc' = [pc |-> IF Panicked(c[1]) \/ Panicked(c[2]) THEN "panicked"
                        ELSE "encrypted",
                 crate |-> ecc.crate, privkey |-> ecc.privkey,
                 pubkey |-> ecc.pubkey, message |-> m, k |-> k,
                 c1 |-> c[1], c2 |-> c[2]]
    /\ UNCHANGED <<ar, rsa, ecdsa, schnorr, elgamal, dsa, zk>>

curve25519_decrypt ==
    /\ ecc.pc = "encrypted" /\ ecc.crate = "curve25519_ecc"
    /\ LET res == decrypt_curve25519(ecc.privkey, ecc.c1, ecc.c2) IN
       ecc' = [pc |-> IF Panicked(res) THEN "panicked" ELSE "decrypted",
               crate |-> ecc.crate, privkey |-> ecc.privkey,
               pubkey |-> ecc.pubkey, message |-> ecc.message, k |-> ecc.k,
               c1 |-> ecc.c1, c2 |-> ecc.c2, res |-> res]
    /\ UNCHANGED <<ar, rsa, ecdsa, schnorr, elgamal, dsa, zk>>

NextEcc ==
    \/ secp256k1_derive \/ secp256k1_encrypt \/ secp256k1_decrypt
    \/ curve25519_derive \/ curve25519_encrypt \/ curve25519_decrypt
SpecEcc == Init /\ [][NextEcc]_vars

---------------------------------------------------------------------------
(* secp256k1_ecdsa/src/lib.rs.  The crate's AffinePoint and modinv are the *)
(* copies of secp256k1_ecc and of euclidian.rs modelled above.  A function *)
(* that returns bool returns 1 for true, 0 for false, Panic for a panic.   *)

ecdsa_derive_verification_key(s) ==
    AffinePoint_naf_ecmult(AffinePoint_new(GENERATOR_X, GENERATOR_Y), s)

\* <<s1, s2>>; e is the nonce drawn from the random number generator
ecdsa_sign(s, d, e) ==
    LET order == CURVE_ORDER
        generator == AffinePoint_new(GENERATOR_X, GENERATOR_Y)
        p1 == AffinePoint_naf_ecmult(generator, e)
        s1 == URem(p1.x, order)
        inv_e == modinv(e, order)
    IN << s1,
          URem(UMul(URem(UAdd(URem(d, order), URem(UMul(s, s1), order)), order),
                    inv_e), order) >>

ecdsa_verify_signature_mut(v, s1, s2, d) ==
    LET order == CURVE_ORDER
        generator == AffinePoint_new(GENERATOR_X, GENERATOR_Y)
        inv_s2 == modinv(s2, order)
        v1 == URem(UMul(inv_s2, URem(d, order)), order)
        v2 == URem(UMul(s1, inv_s2), order)
        res == AffinePoint_add(AffinePoint_naf_ecmult(generator, v1),
                               AffinePoint_naf_ecmult(v, v2))
    IN IF Panicked(res) THEN Panic
       ELSE IF URem(res.y, order) = s1 THEN 1 ELSE 0

ecdsa_verify_signature(v, s1, s2, d) ==
    LET order == CURVE_ORDER
        generator == AffinePoint_new(GENERATOR_X, GENERATOR_Y)
        inv_s2 == modinv(s2, order)
        v1 == URem(UMul(inv_s2, URem(d, order)), order)
        v2 == URem(UMul(s1, inv_s2), order)
        res == AffinePoint_add(AffinePoint_naf_ecmult(generator, v1),
                               AffinePoint_naf_ecmult(v, v2))
    IN IF Panicked(res) THEN Panic
       ELSE IF URem(res.x, order) = s1 THEN 1 ELSE 0

MaxHash == 12

\* secp256k1_ecdsa_runthrough, one step per call
ecdsa_derive ==
    /\ ecdsa = Idle
    /\ \E privkey \in 0..MaxPrivkey, message \in 0..MaxHash :
         LET verif == ecdsa_derive_verification_key(privkey) IN
         ecdsa' = [pc |-> IF Panicked(verif) THEN "panicked" ELSE "derived",
                   privkey |-> privkey, message |-> message, verif |-> verif]
    /\ UNCHANGED <<ar, rsa, ecc, schnorr, elgamal, dsa, zk>>

ecdsa_signing ==
    /\ ecdsa.pc = "derived"
    /\ \E e \in 0..MaxNonce :
         LET sig == ecdsa_sign(ecdsa.privkey, ecdsa.message, e) IN
         ecdsa' = [pc |-> IF sig[1] = Panic \/ sig[2] = Panic THEN "panicked"
                          ELSE "signed",
                   privkey |-> ecdsa.privkey, message |-> ecdsa.message,
                   verif |-> ecdsa.verif, e |-> e, s1 |-> sig[1], s2 |-> sig[2]]
    /\ UNCHANGED <<ar, rsa, ecc, schnorr, elgamal, dsa, zk>>

ecdsa_verifying ==
    /\ ecdsa.pc = "signed"
    /\ LET ok == ecdsa_verify_signature(ecdsa.verif, ecdsa.s1, ecdsa.s2,
                                        ecdsa.message) IN
       ecdsa' = [pc |-> IF ok = Panic THEN "panicked" ELSE "verified",
                 privkey |-> ecdsa.privkey, message |-> ecdsa.message,
                 verif |-> ecdsa.verif, e |-> ecdsa.e, s1 |-> ecdsa.s1,
                 s2 |-> ecdsa.s2, ok |-> ok]
    /\ UNCHANGED <<ar, rsa, ecc, schnorr, elgamal, dsa, zk>>

NextEcdsa == ecdsa_derive \/ ecdsa_signing \/ ecdsa_verifying
SpecEcdsa == Init /\ [][NextEcdsa]_vars

\* verify_signature called on its own: a key derived from a small private
\* key, and signature components and a hash that are small or the curve
\* order itself
MaxForgedKey == 3
MaxForgedComponent == 4
MaxForgedHash == 2

call_verify_signature_of(v) ==
    \E s1 \in (0..MaxForgedComponent) \cup {CURVE_ORDER},
       s2 \in (0..MaxForgedComponent) \cup {CURVE_ORDER},
       d \in (0..MaxForgedHash) \cup {CURVE_ORDER} :
        ar' = [fn |-> "verify_signature", args |-> <<v, s1, s2, d>>,
               ret |-> <<ecdsa_verify_signature(v, s1, s2, d)>>]

call_verify_signature ==
    /\ ar = ArIdle
    /\ \E privkey \in 0..MaxForgedKey :
         call_verify_signature_of(ecdsa_derive_verification_key(privkey))
    /\ UNCHANGED <<rsa, ecc, ecdsa, schnorr, elgamal, dsa, zk>>

NextForged == call_verify_signature
SpecForged == Init /\ [][NextForged]_vars

\* secp256k1_ecdsa_expected_fail: the signature is made with privkey + 1 and
\* verified under the key derived from privkey
ecdsa_signing_wrong ==
    /\ ecdsa.pc = "derived"
    /\ \E e \in 0..MaxNonce :
         LET sig == ecdsa_sign(UAdd(ecdsa.privkey, 1), ecdsa.message, e) IN
         ecdsa' = [pc |-> IF sig[1] = Panic \/ sig[2] = Panic THEN "wrong_panicked"
                          ELSE "wrong_signed",
                   privkey |-> ecdsa.privkey, message |-> ecdsa.message,
                   verif |-> ecdsa.verif, e |-> e, s1 |-> sig[1], s2 |-> sig[2]]
    /\ UNCHANGED <<ar, rsa, ecc, schnorr, elgamal, dsa, zk>>

ecdsa_verifying_wrong ==
    /\ ecdsa.pc = "wrong_signed"
    /\ LET ok == ecdsa_verify_signature(ecdsa.verif, ecdsa.s1, ecdsa.s2,
                                        ecdsa.message) IN
       ecdsa' = [pc |-> IF ok = Panic THEN "wrong_panicked" ELSE "wrong_verified",
                 privkey |-> ecdsa.privkey, message |-> ecdsa.message,
                 verif |-> ecdsa.verif, e |-> ecdsa.e, s1 |-> ecdsa.s1,
                 s2 |-> ecdsa.s2, ok |-> ok]
    /\ UNCHANGED <<ar, rsa, ecc, schnorr, elgamal, dsa, zk>>

NextEcdsaFail == ecdsa_derive \/ ecdsa_signing_wrong \/ ecdsa_verifying_wrong
SpecEcdsaFail == Init /\ [][NextEcdsaFail]_vars

---------------------------------------------------------------------------
(* schnorr_signatures_secp256k1/src/lib.rs.  The blake3 digest of          *)
(* (m, s1.x), reduced modulo the order, is a parameter: sign and verify    *)
(* hash the same message and the same s1.x, hence obtain the same value.   *)

schnorr_derive_verification_key(s) ==
    AffinePoint_naf_ecmult(AffinePoint_new(GENERATOR_X, GENERATOR_Y),
                           URem(s, CURVE_ORDER))

\* the first signature, g * k
schnorr_sign_s1(k) ==
    AffinePoint_naf_ecmult(AffinePoint_new(GENERATOR_X, GENERATOR_Y), k)

\* the second signature, (k + s * hn) mod order
schnorr_sign_s2(s, k, hn) ==
    URem(UAdd(k, URem(UMul(s, hn), CURVE_ORDER)), CURVE_ORDER)

schnorr_verify(s1, s2, pk, h) ==
    LET g  == AffinePoint_new(GENERATOR_X, GENERATOR_Y)
        r1 == AffinePoint_naf_ecmult(g, s2)
        r2 == AffinePoint_add(s1, AffinePoint_naf_ecmult(pk, h))
    IN IF Panicked(r1) \/ Panicked(r2) THEN Panic
       ELSE IF AffinePoint_eq(r1, r2) THEN 1 ELSE 0

MaxSecretKey == 3
MaxSchnorrNonce == 3
MaxSchnorrMessage == 0

\* schnorr_ext, one step per call
schnorr_derive ==
    /\ schnorr = Idle
    /\ \E secret_key \in 0..MaxSecretKey :
         LET public_key == schnorr_derive_verification_key(secret_key) IN
         schnorr' = [pc |-> IF Panicked(public_key) THEN "panicked" ELSE "derived",
                     secret_key |-> secret_key, public_key |-> public_key]
    /\ UNCHANGED <<ar, rsa, ecc, ecdsa, elgamal, dsa, zk>>

schnorr_signing ==
    /\ schnorr.pc = "derived"
    /\ \E message \in 0..MaxSchnorrMessage, k \in 0..MaxSchnorrNonce,
          hn \in 0..(CURVE_ORDER - 1) :
         LET s1 == schnorr_sign_s1(k)
             s2 == schnorr_sign_s2(schnorr.secret_key, k, hn) IN
         schnorr' = [pc |-> IF Panicked(s1) \/ s2 = Panic THEN "panicked"
                            ELSE "signed",
                     secret_key |-> schnorr.secret_key,
                     public_key |-> schnorr.public_key,
                     message |-> message, k |-> k, h |-> hn,
                     s1 |-> s1, s2 |-> s2]
    /\ UNCHANGED <<ar, rsa, ecc, ecdsa, elgamal, dsa, zk>>

schnorr_verifying ==
    /\ schnorr.pc = "signed"
    /\ LET ok == schnorr_verify(schnorr.s1, schnorr.s2, schnorr.public_key,
                                schnorr.h) IN
       schnorr' = [pc |-> IF ok = Panic THEN "panicked" ELSE "verified",
                   secret_key |-> schnorr.secret_key,
                   public_key |-> schnorr.public_key,
                   message |-> schnorr.message, k |-> schnorr.k, h |-> schnorr.h,
                   s1 |-> schnorr.s1, s2 |-> schnorr.s2, ok |-> ok]
    /\ UNCHANGED <<ar, rsa, ecc, ecdsa, elgamal, dsa, zk>>

NextSchnorr == schnorr_derive \/ schnorr_signing \/ schnorr_verifying
SpecSchnorr == Init /\ [][NextSchnorr]_vars

---------------------------------------------------------------------------
(* elgamal/src/lib.rs and elgamal_dsa/src/lib.rs.  Both crates take the    *)
(* same prime modulus and the same generator, which is larger than the     *)
(* modulus; scaled: the prime 89 and 248, a primitive root modulo 89.      *)


elgamal_derive_public_key(privkey) == mod_exp(GENERATOR, privkey, BASEPOINT_ORDER)

\* <<c1, c2>>
encrypt_elgamal(pubkey, ascii_message, throwaway_key) ==
    << mod_exp(GENERATOR, throwaway_key, BASEPOINT_ORDER),
       URem(UMul(ascii_message, mod_exp(pubkey, throwaway_key, BASEPOINT_ORDER)),
            BASEPOINT_ORDER) >>

\* a faulty variant: c1 raised to q - privkey
decrypt_elgamal_mut(c1, c2, privkey) ==
    URem(UMul(mod_exp(c1, USub(BASEPOINT_ORDER, privkey), BASEPOINT_ORDER), c2),
         BASEPOINT_ORDER)

decrypt_elgamal(c1, c2, privkey) ==
    URem(UMul(mod_exp(c1, USub(USub(BASEPOINT_ORDER, 1), privkey), BASEPOINT_ORDER),
              c2),
         BASEPOINT_ORDER)

MaxThrowaway == 4
MaxElgamalMessage == 95

\* elgamal_test, one step per call
elgamal_derive ==
    /\ elgamal = Idle
    /\ \E s \in 0..BASEPOINT_ORDER, m \in 0..MaxElgamalMessage :
         LET pub_key == elgamal_derive_public_key(s) IN
         elgamal' = [pc |-> IF pub_key = Panic THEN "panicked" ELSE "derived",
                     s |-> s, m |-> m, pub_key |-> pub_key]
    /\ UNCHANGED <<ar, rsa, ecc, ecdsa, schnorr, dsa, zk>>

elgamal_encrypt ==
    /\ elgamal.pc = "derived"
    /\ \E throwaway_key \in 0..MaxThrowaway :
         LET c == encrypt_elgamal(elgamal.pub_key, elgamal.m, throwaway_key) IN
         elgamal' = [pc |-> IF c[1] = Panic \/ c[2] = Panic THEN "panicked"
                            ELSE "encrypted",
                     s |-> elgamal.s, m |-> elgamal.m, pub_key |-> elgamal.pub_key,
                     k |-> throwaway_key, c1 |-> c[1], c2 |-> c[2]]
    /\ UNCHANGED <<ar, rsa, ecc, ecdsa, schnorr, dsa, zk>>

elgamal_decrypt ==
    /\ elgamal.pc = "encrypted"
    /\ LET res == decrypt_elgamal(elgamal.c1, elgamal.c2, elgamal.s) IN
       elgamal' = [pc |-> IF res = Panic THEN "panicked" ELSE "decrypted",
                   s |-> elgamal.s, m |-> elgamal.m, pub_key |-> elgamal.pub_key,
                   k |-> elgamal.k, c1 |-> elgamal.c1, c2 |-> elgamal.c2,
                   res |-> res]
    /\ UNCHANGED <<ar, rsa, ecc, ecdsa, schnorr, dsa, zk>>

NextElgamal == elgamal_derive \/ elgamal_encrypt \/ elgamal_decrypt
SpecElgamal == Init /\ [][NextElgamal]_vars

---------------------------------------------------------------------------
(* elgamal_dsa/src/lib.rs                                                  *)

dsa_derive_public_key(privkey) == mod_exp(GENERATOR, privkey, BASEPOINT_ORDER)

\* s2, from privkey * s1 and the inverse of the nonce
dsa_sign_s2(ps1, document_hash, inv_k) ==
    LET m == USub(BASEPOINT_ORDER, 1) IN
    IF ps1 = Panic THEN Panic
    ELSE IF URem(ps1, m) > document_hash
    THEN URem(UMul(USub(m, USub(URem(ps1, m), document_hash)), inv_k), m)
    ELSE URem(UMul(USub(document_hash, ps1), inv_k), m)

\* <<s1, s2>>; k is the nonce the loop of sign has kept
dsa_sign_nonce(privkey, document_hash, k, s1) ==
    << s1,
       dsa_sign_s2(UMul(privkey, s1), document_hash,
                   modinv(k, USub(BASEPOINT_ORDER, 1))) >>

dsa_sign(privkey, document_hash, k) ==
    dsa_sign_nonce(privkey, document_hash, k,
                   mod_exp(GENERATOR, k, BASEPOINT_ORDER))

dsa_verify(s1, s2, pubkey, document_hash) ==
    LET check == mod_exp(GENERATOR, document_hash, BASEPOINT_ORDER)
        p1 == mod_exp(pubkey, s1, BASEPOINT_ORDER)
        p2 == mod_exp(s1, s2, BASEPOINT_ORDER)
        verif == URem(UMul(p1, p2), BASEPOINT_ORDER)
    IN IF check = Panic \/ verif = Panic THEN Panic
       ELSE IF check = verif THEN 1 ELSE 0

MaxDsaKey == 4
MaxDsaHash == 95
MaxDsaNonce == 5

\* elgamal_test(s, d), one step per call
dsa_derive ==
    /\ dsa = Idle
    /\ \E s \in 0..MaxDsaKey, d \in 0..MaxDsaHash :
         LET pubkey == dsa_derive_public_key(s) IN
         dsa' = [pc |-> IF pubkey = Panic THEN "panicked" ELSE "derived",
                 s |-> s, d |-> d, pubkey |-> pubkey]
    /\ UNCHANGED <<ar, rsa, ecc, ecdsa, schnorr, elgamal, zk>>

\* the loop of sign draws nonces until one is coprime to the order minus one;
\* gcd panics on the nonce 0
dsa_signing ==
    /\ dsa.pc = "derived"
    /\ \E k \in 0..MaxDsaNonce :
         LET g == gcd(k, USub(BASEPOINT_ORDER, 1))
             sig == dsa_sign(dsa.s, dsa.d, k) IN
         /\ g = 1 \/ g = Panic
         /\ dsa' = [pc |-> IF g = Panic \/ sig[1] = Panic \/ sig[2] = Panic
                           THEN "panicked" ELSE "signed",
                    s |-> dsa.s, d |-> dsa.d, pubkey |-> dsa.pubkey, k |-> k,
                    s1 |-> IF g = Panic THEN Panic ELSE sig[1],
                    s2 |-> IF g = Panic THEN Panic ELSE sig[2]]
    /\ UNCHANGED <<ar, rsa, ecc, ecdsa, schnorr, elgamal, zk>>

dsa_verifying ==
    /\ dsa.pc = "signed"
    /\ LET ok == dsa_verify(dsa.s1, dsa.s2, dsa.pubkey, dsa.d) IN
       dsa' = [pc |-> IF ok = Panic THEN "panicked" ELSE "verified",
               s |-> dsa.s, d |-> dsa.d, pubkey |-> dsa.pubkey, k |-> dsa.k,
               s1 |-> dsa.s1, s2 |-> dsa.s2, ok |-> ok]
    /\ UNCHANGED <<ar, rsa, ecc, ecdsa, schnorr, elgamal, zk>>

NextDsa == dsa_derive \/ dsa_signing \/ dsa_verifying
SpecDsa == Init /\ [][NextDsa]_vars

---------------------------------------------------------------------------
(* interactive_zero_knowledge/src/lib.rs: convince runs ROUNDS rounds of   *)
(* commitment, challenge, response and verification.                       *)

ROUNDS == 100

\* a faulty variant: the square of z compared with y + s
zk_verify_mut(z, N, s, y, challenge) ==
    LET ch == URem(UMul(z, z), N) IN
    IF ch = Panic THEN Panic
    ELSE IF challenge = 0 THEN (IF ch = s THEN 1 ELSE 0)
    ELSE IF URem(UAdd(y, s), N) = Panic THEN Panic
    ELSE IF ch = URem(UAdd(y, s), N) THEN 1 ELSE 0

zk_verify(z, N, s, y, challenge) ==
    LET ch == URem(UMul(z, z), N) IN
    IF ch = Panic THEN Panic
    ELSE IF challenge = 0 THEN (IF ch = s THEN 1 ELSE 0)
    ELSE IF URem(UMul(y, s), N) = Panic THEN Panic
    ELSE IF ch = URem(UMul(y, s), N) THEN 1 ELSE 0

\* the response z of the prover to the challenge
zk_response(r, x, N, rand) ==
    IF rand = 0 THEN URem(r, N) ELSE URem(UMul(r, x), N)

MaxZkKey == 5
MaxZkSecret == 5
MaxZkCommit == 5

\* let N = p * q; let y = (x * x) % N
convince_start ==
    /\ zk = Idle
    /\ \E p \in 2..MaxZkKey, q \in 2..MaxZkKey, x \in 0..MaxZkSecret :
         LET N == UMul(p, q)
             y == URem(UMul(x, x), N) IN
         zk' = [pc |-> IF y = Panic THEN "panicked" ELSE "commit",
                p |-> p, q |-> q, x |-> x, N |-> N, y |-> y, round |-> 0,
                r |-> None, nr |-> None, rand |-> None, z |-> None,
                result |-> None]
    /\ UNCHANGED <<ar, rsa, ecc, ecdsa, schnorr, elgamal, dsa>>

\* let r = next_u64(); let nr = (r * r) % N
convince_commit ==
    /\ zk.pc = "commit"
    /\ \E r \in 0..MaxZkCommit :
         LET nr == URem(UMul(r, r), zk.N) IN
         zk' = [zk EXCEPT !.pc = IF nr = Panic THEN "panicked" ELSE "challenge",
                          !.r = r, !.nr = nr]
    /\ UNCHANGED <<ar, rsa, ecc, ecdsa, schnorr, elgamal, dsa>>

\* let rand = simulate_challenge()
simulate_challenge ==
    /\ zk.pc = "challenge"
    /\ \E rand \in {0, 1} : zk' = [zk EXCEPT !.pc = "respond", !.rand = rand]
    /\ UNCHANGED <<ar, rsa, ecc, ecdsa, schnorr, elgamal, dsa>>

convince_respond ==
    /\ zk.pc = "respond"
    /\ LET z == zk_response(zk.r, zk.x, zk.N, zk.rand) IN
       zk' = [zk EXCEPT !.pc = IF z = Panic THEN "panicked" ELSE "verify",
                        !.z = z]
    /\ UNCHANGED <<ar, rsa, ecc, ecdsa, schnorr, elgamal, dsa>>

\* a faulty variant: the final true already after the first accepted round
convince_verify_mut ==
    /\ zk.pc = "verify"
    /\ LET ok == zk_verify(zk.z, zk.N, zk.nr, zk.y, zk.rand) IN
       zk' = IF ok = Panic THEN [zk EXCEPT !.pc = "panicked"]
             ELSE IF ok = 0 THEN [zk EXCEPT !.pc = "returned", !.result = 0]
             ELSE [zk EXCEPT !.pc = "returned", !.result = 1,
                             !.round = zk.round + 1]
    /\ UNCHANGED <<ar, rsa, ecc, ecdsa, schnorr, elgamal, dsa>>

\* if !verify(z, N, nr, y, rand) { return false; }  and, after the last
\* round, the final true
convince_verify ==
    /\ zk.pc = "verify"
    /\ LET ok == zk_verify(zk.z, zk.N, zk.nr, zk.y, zk.rand) IN
       zk' = IF ok = Panic THEN [zk EXCEPT !.pc = "panicked"]
             ELSE IF ok = 0 THEN [zk EXCEPT !.pc = "returned", !.result = 0]
             ELSE IF zk.round + 1 = ROUNDS
             THEN [zk EXCEPT !.pc = "returned", !.result = 1,
                             !.round = zk.round + 1]
             ELSE [zk EXCEPT !.pc = "commit", !.round = zk.round + 1,
                             !.r = None, !.nr = None, !.rand = None, !.z = None]
    /\ UNCHANGED <<ar, rsa, ecc, ecdsa, schnorr, elgamal, dsa>>

NextZk ==
    \/ convince_start \/ convince_commit \/ simulate_challenge
    \/ convince_respond \/ convince_verify
SpecZk == Init /\ [][NextZk]_vars

---------------------------------------------------------------------------
(* Mathematical vocabulary of the claims.                                  *)

Divides(d, n) == n % d = 0
Coprime(a, b) == \A d \in 2..b : ~(Divides(d, a) /\ Divides(d, b))

RECURSIVE SignedSum(_, _, _)
\* the sum over 0 <= j < n of 2^j * (np_j - nm_j)
SignedSum(np, nm, n) ==
    IF n = 0 THEN 0
    ELSE (np % 2) - (nm % 2) + 2 * SignedSum(np \div 2, nm \div 2, n - 1)

\* C9: for every s below 2^ScalarBits the masks (np, nm) of naf(s) are the
\* non-adjacent form of s: the signed sum of their ScalarBits + 1 low digits
\* is s, no position is set in both, and no two adjacent positions of
\* np OR nm are both set.
NafIsNonAdjacentForm ==
    ar.fn = "naf" =>
        LET s  == ar.args[1]
            np == ar.ret[1]
            nm == ar.ret[2]
            u  == BitOr(np, nm)
        IN /\ SignedSum(np, nm, ScalarBits + 1) = s
           /\ BitAnd(np, nm) = 0
           /\ BitAnd(u, u \div 2) = 0

\* a scalar whose recoding has a digit at position ScalarBits and -1 digits
NafWitness ==
    /\ ar.fn = "naf"
    /\ ar.args[1] = Pow2(ScalarBits) - 1
    /\ ar.ret = <<Pow2(ScalarBits), 1>>

\* C10: for every modulus p >= 2 and every e >= 1 coprime to p (e >= p
\* included) modinv(e, p) is the inverse of e modulo p, reduced into [0, p).
ModinvInverts ==
    (ar.fn = "modinv" /\ ar.args[2] >= 2 /\ ar.args[1] >= 1
        /\ Coprime(ar.args[1], ar.args[2])) =>
        LET e == ar.args[1]
            p == ar.args[2]
            r == ar.ret[1]
        IN r \in 0..(p - 1) /\ (e * r) % p = 1

\* a composite modulus, e >= p, and an inverse that needed the rewrite of a
\* negative accumulator
ModinvWitness ==
    /\ ar.fn = "modinv"
    /\ ar.args = <<47, 30>>
    /\ ar.ret = <<23>>

IsPrime(n) == n >= 2 /\ \A d \in 2..(n - 1) : ~Divides(d, n)

\* the call of rsa_decrypt has ended, by a return or by a panic
RsaDecryptEnded == rsa.pc = "decrypted" \/ (rsa.pc = "panicked" /\ rsa.c # None)

\* C1 as claimed: for every (p, q, e) that rsa_derive_pubkey accepts and
\* every m < p*q, rsa_decrypt(rsa_encrypt(m, p*q, e), q, p, e) returns m.
RsaRoundTripAsClaimed ==
    RsaDecryptEnded => rsa.m2 = rsa.m

\* C1 as amended: the same for two distinct primes p # q whose product
\* fits half a word (so that the squarings of mod_exp do not overflow).
RsaRoundTrip ==
    (RsaDecryptEnded /\ rsa.p # rsa.q /\ IsPrime(rsa.p) /\ IsPrime(rsa.q)
        /\ rsa.N < Pow2(WordBits \div 2)) => rsa.m2 = rsa.m

\* a round trip of a message that shares a factor with N, under an
\* exponent with a non-trivial inverse
RsaRoundTripWitness ==
    /\ rsa.pc = "decrypted"
    /\ rsa.p = 11 /\ rsa.q = 13 /\ rsa.e = 7
    /\ rsa.m = 2 /\ rsa.c = 128 /\ rsa.m2 = 2

\* C2: EC-ElGamal round trip on secp256k1 and on Curve25519: for every
\* private scalar s (s = 0 included), every nonce k (k = 0 included) and
\* every on-curve message point M, decrypting the encryption of M under s*G
\* returns M.
EcElGamalRoundTrip ==
    (ecc.pc = "decrypted" \/ (ecc.pc = "panicked" /\ "c1" \in DOMAIN ecc))
       => (ecc.pc = "decrypted" /\ ecc.res = ecc.message)

\* C3: ECDSA completeness: for every private key s, every document hash d
\* and every signing nonce e with 1 <= e < n, the pair (s1, s2) that sign
\* computes with that nonce is accepted by verify_signature under s*G.
EcdsaCompleteness ==
    ( /\ ecdsa.pc = "verified" \/ (ecdsa.pc = "panicked" /\ "s1" \in DOMAIN ecdsa)
      /\ ecdsa.e >= 1 /\ ecdsa.e < CURVE_ORDER )
       => (ecdsa.pc = "verified" /\ ecdsa.ok = 1)

\* C4: Schnorr completeness: for every private key s, message m, nonce k and
\* every value h of the hash of (m, R.x), the signature (R = k*G,
\* s2 = k + s*h mod n) that sign produces is accepted by verify, the cases
\* R = identity, R = h*P and R = -(h*P) included.
SchnorrCompleteness ==
    (schnorr.pc = "verified" \/ (schnorr.pc = "panicked" /\ "s1" \in DOMAIN schnorr))
       => (schnorr.pc = "verified" /\ schnorr.ok = 1)

\* C6: multiplicative ElGamal round trip: for every private key s with
\* 0 <= s <= q-1, every message m with 0 <= m < q and every throwaway key k
\* (k = 0 included), decrypt_elgamal(c1, c2, s) = m for
\* (c1, c2) = (g^k mod q, m * (g^s)^k mod q).
ElgamalRoundTrip ==
    ( /\ elgamal.pc = "decrypted" \/ (elgamal.pc = "panicked" /\ "c1" \in DOMAIN elgamal)
      /\ elgamal.s <= BASEPOINT_ORDER - 1
      /\ elgamal.m < BASEPOINT_ORDER )
       => (elgamal.pc = "decrypted" /\ elgamal.res = elgamal.m)

ElgamalRoundTripWitness ==
    /\ elgamal.pc = "decrypted"
    /\ elgamal.s = BASEPOINT_ORDER - 1 /\ elgamal.k = 3
    /\ elgamal.m = BASEPOINT_ORDER - 2 /\ elgamal.c1 # 1
    /\ elgamal.res = elgamal.m

\* C5: ElGamal DSA completeness: for every private key s, every document
\* hash d (of any size, not only hashes below s*s1) and every nonce k coprime
\* to q-1, sign computes (s1, s2) without an unsigned subtraction going below
\* zero and verify(s1, s2, g^s mod q, d) returns true.
DsaCompleteness ==
    ( /\ dsa.pc = "verified" \/ (dsa.pc = "panicked" /\ "k" \in DOMAIN dsa)
      /\ Coprime(dsa.k, BASEPOINT_ORDER - 1) /\ dsa.k >= 1 )
       => (dsa.pc = "verified" /\ dsa.ok = 1)

\* C7: interactive zero-knowledge completeness: for every p, q, every secret
\* x and every sequence of per-round random values r and challenge bits b,
\* convince(p, q, x) returns true: the honest prover passes each of the 100
\* rounds.
ZkCompleteness ==
    /\ zk.pc \in {"returned", "panicked"}
         => (zk.pc = "returned" /\ zk.result = 1 /\ zk.round = ROUNDS)
    /\ zk.pc = "verify" => zk_verify(zk.z, zk.N, zk.nr, zk.y, zk.rand) = 1

ZkCompletenessWitness ==
    /\ zk.pc = "returned" /\ zk.result = 1 /\ zk.round = ROUNDS
    /\ zk.p = 2 /\ zk.q = 2 /\ zk.x = 5 /\ zk.y = 1
    /\ zk.r = 5 /\ zk.rand = 1 /\ zk.z = 1

\* the group law of a curve y^2 = x^3 + A x^2 + c x + b over the field of f
\* elements, on points [x, y, infinity]
FieldInverse(d, f) == CHOOSE i \in 1..(f - 1) : (i * d) % f = 1
Infinity == [x |-> 0, y |-> 0, infinity |-> TRUE]
GroupAdd(P, Q, A, c, f) ==
    IF P.infinity THEN Q
    ELSE IF Q.infinity THEN P
    ELSE IF P.x = Q.x /\ (P.y + Q.y) % f = 0 THEN Infinity
    ELSE LET l == IF P.x = Q.x
                  THEN ((3 * P.x * P.x + 2 * A * P.x + c)
                          * FieldInverse((2 * P.y) % f, f)) % f
                  ELSE (((Q.y + f - P.y) % f)
                          * FieldInverse((Q.x + f - P.x) % f, f)) % f
             x3 == (l * l + 3 * f - A - P.x - Q.x) % f
         IN [x |-> x3, y |-> (l * (P.x + f - x3) + f - P.y) % f,
             infinity |-> FALSE]

GroupDouble(P, A, c, f) == GroupAdd(P, P, A, c, f)

RECURSIVE GroupMul(_, _, _, _, _)
\* s*P, the sum of s copies of P, by s*P = 2*((s div 2)*P) + (s mod 2)*P
GroupMul(P, s, A, c, f) ==
    IF s = 0 THEN Infinity
    ELSE GroupAdd(GroupDouble(GroupMul(P, s \div 2, A, c, f), A, c, f),
                  IF s % 2 = 1 THEN P ELSE Infinity, A, c, f)

\* the multiple the call in ar is to return
ScalarMultiple ==
    IF ar.fn = "AffinePoint::naf_ecmult"
    THEN GroupMul(ar.args[1], ar.args[2], 0, 0, FIELD_SIZE)
    ELSE GroupMul(ar.args[1], ar.args[2], MONTGOMERY_A, 1, FIELD)

\* C8: for every scalar s below 2^ScalarBits and every base point P of the
\* group, naf_ecmult(P, s) returns s*P, in the secp256k1 AffinePoint and in
\* both MontgomeryPoint implementations, the digit of the recoding at
\* position ScalarBits included.
NafEcmultIsScalarMultiple ==
    ar # ArIdle => ar.ret[1] = ScalarMultiple

Square(x) == x * x
RECURSIVE Power(_, _, _)
\* g^a mod f, by g^a = (g^(a div 2))^2 * g^(a mod 2)
Power(g, a, f) ==
    IF a = 0 THEN 1 % f
    ELSE (Square(Power(g, a \div 2, f)) * (IF a % 2 = 1 THEN g % f ELSE 1)) % f

\* C11: for every base g >= 1 (g >= f included), every exponent a >= 0 and
\* every modulus f >= 2, mod_exp(g, a, f) is g^a mod f, and mod_exp(0, a, f)
\* is 0 for every a.
ModExpIsPower ==
    (ar.fn = "mod_exp" /\ ar.args[3] >= 2) =>
        IF ar.args[1] = 0 THEN ar.ret[1] = 0
        ELSE ar.ret[1] = Power(ar.args[1], ar.args[2], ar.args[3])

\* an exponent with every bit set, from the tests of the repository
ModExpWitness ==
    /\ ar.fn = "mod_exp"
    /\ ar.args = <<2, 127, 71>>
    /\ ar.ret = <<50>>

\* a^(p-1) = 1 (mod p) for every a in 2..9
FermatPasses(p) == \A a \in 2..9 : Power(a, p - 1, p) = 1

\* C12 as claimed: for every p >= 2, flt(p) is true when p is prime and
\* false when p is composite.
FltDecidesPrimality ==
    (ar.fn = "flt" /\ ar.args[1] >= 2) =>
        (ar.ret[1] = 1 <=> IsPrime(ar.args[1]))

\* C12: for every p >= 2, flt(p) is true exactly when a^(p-1) = 1 (mod p)
\* for every a in 2..9; it is true for every prime p >= 11 and false for the
\* primes 2, 3, 5 and 7, which are themselves among the bases.
FltIsFermatFilter ==
    (ar.fn = "flt" /\ ar.args[1] >= 2) =>
        /\ ar.ret[1] \in {0, 1}
        /\ ar.ret[1] = 1 <=> FermatPasses(ar.args[1])
        /\ (IsPrime(ar.args[1]) /\ ar.args[1] >= 11) => ar.ret[1] = 1
        /\ ar.args[1] \in {2, 3, 5, 7} => ar.ret[1] = 0

\* a prime accepted, beyond the bases
FltWitness ==
    /\ ar.fn = "flt"
    /\ ar.args = <<101>>
    /\ ar.ret = <<1>>

\* C13: rsa_derive_pubkey(q, p, e) returns only when gcd(e, (p-1)(q-1)) = 1
\* and p and q are prime (it fails for e = 0, for a composite p and for a
\* composite q), and what it returns is (p*q, e).
RsaDerivePubkeyRejects ==
    rsa.pc = "derived" =>
        /\ rsa.e >= 1
        /\ Coprime((rsa.p - 1) * (rsa.q - 1), rsa.e)
        /\ IsPrime(rsa.p)
        /\ IsPrime(rsa.q)
        /\ rsa.N = rsa.p * rsa.q

\* C14: for each curve and every scalar k (k = 0 and the multiples of the
\* group order included) the point k*G that the scalar multiplier returns
\* on the generator passes the curve's on-curve predicate: verify on
\* secp256k1, on_curve on Curve25519, valid on Ed25519.
MultipleIsOnCurve ==
    ar.fn \in {"verify", "on_curve", "valid"} => ar.ret[2] = TRUE


\* C15: with the table of initialize_window8, wNAF8 returns a point for
\* every scalar, that point is the one the plain multiplier naf_ecmult
\* returns for the same scalar, and every entry (i, j) of the table is the
\* multiple j * 2^(WindowBits * i) of the generator, whichever of the two
\* values PRIME_ORDER has.
TableEntriesAreMultiples(map) ==
    \A k \in DOMAIN map :
        map[k] = GroupMul(MontgomeryPoint_generator,
                          k[2] * Pow2(WindowBits * k[1]), MONTGOMERY_A, 1, FIELD)

WindowedMulIsScalarMul ==
    ar.fn = "wNAF8" =>
        /\ ~Panicked(ar.ret[1])
        /\ ar.ret[1] = ar.ret[2]
        /\ TableEntriesAreMultiples(ar.ret[3])

RsaFlipEnded == rsa.pc \in {"flip_decrypted", "flip_panicked"}

EcdsaWrongKeyEnded ==
    /\ ecdsa.pc \in {"wrong_verified", "wrong_panicked"}
    /\ "ok" \in DOMAIN ecdsa
    /\ ecdsa.e >= 1 /\ ecdsa.e < CURVE_ORDER

EcdsaWrongKeyPoint ==
    GroupMul(AffinePoint_new(GENERATOR_X, GENERATOR_Y),
             (((ecdsa.message + ecdsa.privkey * ecdsa.s1) % CURVE_ORDER)
                 * FieldInverse(ecdsa.s2, CURVE_ORDER)) % CURVE_ORDER,
             0, 0, FIELD_SIZE)

EncryptRejectsOffCurve ==
    (ar.fn = "encrypt_message" /\ ~verify(ar.args[2], FIELD_SIZE)) =>
        (Panicked(ar.ret[1]) \/ Panicked(ar.ret[2]))

\* C20: for every scalar s >= 1, EdwardsPoint::naf_ecmult(s) on the Edwards
\* generator returns the Edwards image of MontgomeryPoint::naf_ecmult(s) on
\* the Montgomery generator: at a digit -1 the Edwards loop adds the
\* negation of the running multiple.
EdwardsMultipleIsMontgomeryImage ==
    (ar.fn = "cofactor_check" /\ ar.args[1] >= 1) =>
        (ar.ret[1].x # Panic /\ ar.ret[1] = ar.ret[2])

\* C19: every naf_ecmult (AffinePoint, MontgomeryPoint, EdwardsPoint,
\* ProjectiveEdwardsPoint) makes exactly ScalarBits passes of its loop for
\* every scalar, each pass one addition (real or dummy) followed by one
\* doubling, so that the sequence of point operations has the same length
\* for any two scalars.
NafEcmultIsFixedLength ==
    ar.fn = "naf_ecmult_ops" =>
        /\ Len(ar.ret[1]) = 2 * ScalarBits
        /\ \A i \in 1..ScalarBits :
             /\ ar.ret[1][2 * i - 1] \in {"add", "dummy_add"}
             /\ ar.ret[1][2 * i] = "double"

\* C21: for every point type and every base point P, naf_ecmult(P, 0)
\* returns the identity of the type, the initial value of res, not P.
NafEcmultZeroIsIdentity ==
    (ar.fn = "naf_ecmult_small" /\ ar.args[3] = 0) =>
        ar.ret[1] = naf_ecmult_identity(ar.args[1])

\* C22: for every finite point P = (x, y) of the Weierstrass and of the
\* Montgomery type, add(P, (x, (p - y) mod p)) returns the identity, the
\* self-inverse case y = 0 included.
AddNegatedIsIdentity ==
    ar.fn = "add_negated" =>
        ar.ret[1] = naf_ecmult_identity(ar.args[1])

\* C23: for every Montgomery point (u, v) with v # 0, u # 0 and u # p - 1,
\* the case u = 1 included, into_edwards followed by into_montgomery returns
\* (u, v), and no unsigned subtraction on the way goes below zero.
BirationalRoundTrip ==
    (/\ ar.fn = "round_trip"
     /\ ar.args[1] \notin {0, FIELD - 1}
     /\ ar.args[2] # 0) =>
        ar.ret[1] = MontgomeryPoint_new(ar.args[1], ar.args[2])

\* C24: for all points P and Q of the Edwards curve, P = Q and the identity
\* (0, 1) on either side included, adding the extended coordinates with
\* ProjectiveEdwardsPoint::add and converting back gives EdwardsPoint::add(P, Q).
ProjectiveAddIsUnified ==
    ar.fn = "projective_add" => ar.ret[1] = ar.ret[2]

\* C25: the proof runs round by round: in each round the commitment
\* nr = r^2 mod N is fixed before the challenge bit is sampled and stays as it
\* is until the round is verified; convince returns false at the first
\* rejected round and runs no further round; it returns true only after
\* exactly ROUNDS accepted rounds.
ZkRoundByRound ==
    /\ [](zk.pc = "challenge" =>
            (zk.nr = URem(UMul(zk.r, zk.r), zk.N) /\ zk.rand = None))
    /\ [][zk.pc \in {"challenge", "respond"} =>
            (zk'.nr = zk.nr /\ zk'.r = zk.r /\ zk'.round = zk.round)]_vars
    /\ [][zk.pc = "verify" =>
            IF zk_verify(zk.z, zk.N, zk.nr, zk.y, zk.rand) = 0
            THEN zk'.pc = "returned" /\ zk'.result = 0 /\ zk'.round = zk.round
            ELSE /\ zk'.round = zk.round + 1
                 /\ zk'.pc = (IF zk'.round = ROUNDS THEN "returned" ELSE "commit")
                 /\ zk'.pc = "returned" => zk'.result = 1]_vars
    /\ []((zk.pc = "returned" /\ zk.result = 1) => zk.round = ROUNDS)
    /\ [][zk.pc = "returned" => zk' = zk]_vars

ZkRoundByRoundWitness ==
    /\ zk.pc = "returned" /\ zk.result = 1 /\ zk.round = ROUNDS
    /\ zk.p = 3 /\ zk.q = 5 /\ zk.x = 2
    /\ zk.r = 2 /\ zk.nr = 4 /\ zk.rand = 0 /\ zk.z = 2

\* C26: for points whose coordinates are in [0, p), every coordinate that
\* add and double return, and every coordinate of a negated point built in
\* naf_ecmult or in decrypt, is in [0, p) again: a coordinate that is 0
\* modulo p is 0, never p.
CoordinatesStayReduced ==
    (/\ ar.fn \in {"add_coordinates", "double_coordinates", "negated_coordinates"}
     /\ ar.ret[1].x # Panic) =>
        /\ ar.ret[1].x \in 0..(coordinates_field(ar.args[1]) - 1)
        /\ ar.ret[1].y \in 0..(coordinates_field(ar.args[1]) - 1)

\* C27: for every modulus p >= 2 and every e that is not a unit modulo p
\* (gcd(e, p) # 1, e = 0 included), modinv(e, p) ends in a panic and returns
\* no value.
ModinvRejectsNonUnits ==
    (/\ ar.fn = "modinv"
     /\ ar.args[2] >= 2
     /\ ~Coprime(ar.args[1], ar.args[2])) =>
        ar.ret[1] = Panic

\* C28: the negation (x, p - y) made in the nm branch of naf_ecmult keeps
\* the point at infinity at infinity, so that naf_ecmult of the point at
\* infinity is the point at infinity for every scalar s.
EcmultOfInfinityIsInfinity ==
    (/\ ar.fn \in {"AffinePoint::naf_ecmult", "MontgomeryPoint::naf_ecmult"}
     /\ ar.args[1].infinity) =>
        ar.ret[1].infinity

\* C29: verify_signature accepts no signature with s1 = 0 or s2 = 0 modulo
\* the curve order, whatever the key and the hash, a hash that is 0 modulo
\* the order included.
VerifyRejectsZeroComponent ==
    (/\ ar.fn = "verify_signature"
     /\ (ar.args[2] % CURVE_ORDER = 0 \/ ar.args[3] % CURVE_ORDER = 0)) =>
        ar.ret[1] # 1

\* C30: the equality of MontgomeryPoint is reflexive: every point, the point
\* at infinity included, is equal to itself.
MontgomeryEqIsReflexive ==
    (ar.fn = "eq" /\ ar.args[1] = ar.args[2]) => ar.ret[1]

=======================================================================
